---- MODULE Spec2Model ----
(***************************************************************************)
(* AutoServe: the external data binding engine (utils/externalData.ts).    *)
(*                                                                         *)
(* JavaScript values are tagged records [t |-> tag, v |-> content]:        *)
(*   undefined, null, string, number (integers), boolean, array (a         *)
(*   sequence of values) and object (a sequence of [k, v] properties in    *)
(*   declaration order, as Object.keys/Object.entries enumerate them).     *)
(* Strings are TLA+ strings; a character is a string of length 1.          *)
(* Property names, path segments and candidate keys range over names that  *)
(* are not members of Object.prototype or Array.prototype, and numeric     *)
(* strings are written as an optional sign followed by decimal digits.     *)
(***************************************************************************)
EXTENDS Integers, Sequences, FiniteSets, TLC

(***************************************************************************)
(* Strings                                                                 *)
(***************************************************************************)
UpperChars == "ABCDEFGHIJKLMNOPQRSTUVWXYZ"
LowerChars == "abcdefghijklmnopqrstuvwxyz"
DigitChars == "0123456789"

CharAt(s, i) == SubSeq(s, i, i)

CharsOf(alphabet) == {CharAt(alphabet, i) : i \in 1..Len(alphabet)}

UpperSet == CharsOf(UpperChars)
LowerSet == CharsOf(LowerChars)
DigitSet == CharsOf(DigitChars)

\* The position of a character in its alphabet.
IndexIn(alphabet) ==
  [c \in CharsOf(alphabet) |-> CHOOSE i \in 1..Len(alphabet) : CharAt(alphabet, i) = c]

UpperIndex == IndexIn(UpperChars)
LowerIndex == IndexIn(LowerChars)
DigitIndex == IndexIn(DigitChars)

IsDigit(c) == c \in DigitSet
IsAlnum(c) == c \in LowerSet \/ c \in UpperSet \/ c \in DigitSet

\* The class [\s_-] of sanitizeKey and createKeyVariants.
IsSeparator(c) == c \in {" ", "_", "-"}
\* Whitespace as String.prototype.trim and \s see it.
IsSpace(c) == c = " "

LowerChar(c) == IF c \in UpperSet THEN CharAt(LowerChars, UpperIndex[c]) ELSE c
UpperChar(c) == IF c \in LowerSet THEN CharAt(UpperChars, LowerIndex[c]) ELSE c

RECURSIVE toLowerCase(_)
toLowerCase(s) ==
  IF s = "" THEN "" ELSE LowerChar(CharAt(s, 1)) \o toLowerCase(SubSeq(s, 2, Len(s)))

RECURSIVE trimStart(_)
trimStart(s) ==
  IF s # "" /\ IsSpace(CharAt(s, 1)) THEN trimStart(SubSeq(s, 2, Len(s))) ELSE s

RECURSIVE trimEnd(_)
trimEnd(s) ==
  IF s # "" /\ IsSpace(CharAt(s, Len(s))) THEN trimEnd(SubSeq(s, 1, Len(s) - 1)) ELSE s

trim(s) == trimEnd(trimStart(s))

startsWith(s, p) == Len(s) >= Len(p) /\ SubSeq(s, 1, Len(p)) = p
endsWith(s, p) == Len(s) >= Len(p) /\ SubSeq(s, Len(s) - Len(p) + 1, Len(s)) = p

\* First index >= i of s that holds no separator (Len(s) + 1 when there is none).
RECURSIVE separatorRunEnd(_, _)
separatorRunEnd(s, i) ==
  IF i <= Len(s) /\ IsSeparator(CharAt(s, i)) THEN separatorRunEnd(s, i + 1) ELSE i

\* s.replace(/[\s_-]+/g, r)
RECURSIVE replaceSeparatorRuns(_, _)
replaceSeparatorRuns(s, r) ==
  IF s = "" THEN ""
  ELSE IF IsSeparator(CharAt(s, 1))
       THEN r \o replaceSeparatorRuns(SubSeq(s, separatorRunEnd(s, 1), Len(s)), r)
       ELSE CharAt(s, 1) \o replaceSeparatorRuns(SubSeq(s, 2, Len(s)), r)

\* s.replace(/[-_\s]+([a-z0-9])/gi, (_, char) => char.toUpperCase())
RECURSIVE camelReplace(_)
camelReplace(s) ==
  IF s = "" THEN ""
  ELSE LET j == separatorRunEnd(s, 1) IN
       IF j > 1 /\ j <= Len(s) /\ IsAlnum(CharAt(s, j))
       THEN UpperChar(CharAt(s, j)) \o camelReplace(SubSeq(s, j + 1, Len(s)))
       ELSE CharAt(s, 1) \o camelReplace(SubSeq(s, 2, Len(s)))

\* Array.from(new Set(seq)): first occurrences, in order.
addUnique(front, last) ==
  IF \E i \in 1..Len(front) : front[i] = last THEN front ELSE Append(front, last)

RECURSIVE uniqueInOrder(_)
uniqueInOrder(seq) ==
  IF seq = <<>> THEN <<>>
  ELSE addUnique(uniqueInOrder(SubSeq(seq, 1, Len(seq) - 1)), seq[Len(seq)])

RECURSIVE digitsToNat(_)
digitsToNat(s) ==
  IF s = "" THEN 0
  ELSE 10 * digitsToNat(SubSeq(s, 1, Len(s) - 1)) + (DigitIndex[CharAt(s, Len(s))] - 1)

RECURSIVE natToDigits(_)
natToDigits(n) ==
  IF n < 10 THEN CharAt(DigitChars, n + 1)
  ELSE natToDigits(n \div 10) \o CharAt(DigitChars, (n % 10) + 1)

AllDigits(s) == s # "" /\ \A i \in 1..Len(s) : IsDigit(CharAt(s, i))

\* String(n) for an integer n.
numberToString(n) == IF n < 0 THEN "-" \o natToDigits(-n) ELSE natToDigits(n)

NotANumber == [nan |-> TRUE, n |-> 0]

\* The integer written in body, an optional sign and digits, else NaN.
signedDigits(body) ==
  IF startsWith(body, "-")
  THEN IF AllDigits(SubSeq(body, 2, Len(body)))
       THEN [nan |-> FALSE, n |-> 0 - digitsToNat(SubSeq(body, 2, Len(body)))]
       ELSE NotANumber
  ELSE IF startsWith(body, "+")
  THEN IF AllDigits(SubSeq(body, 2, Len(body)))
       THEN [nan |-> FALSE, n |-> digitsToNat(SubSeq(body, 2, Len(body)))]
       ELSE NotANumber
  ELSE IF AllDigits(body) THEN [nan |-> FALSE, n |-> digitsToNat(body)]
  ELSE NotANumber

\* Number(s) for a non-blank s.
stringToNumber(s) == signedDigits(trim(s))

(***************************************************************************)
(* JavaScript values                                                       *)
(***************************************************************************)
Undefined == [t |-> "undefined", v |-> 0]
Null == [t |-> "null", v |-> 0]
Str(s) == [t |-> "string", v |-> s]
Num(n) == [t |-> "number", v |-> n]
Bool(b) == [t |-> "boolean", v |-> b]
Arr(items) == [t |-> "array", v |-> items]
Obj(props) == [t |-> "object", v |-> props]
Prop(key, value) == [k |-> key, v |-> value]

IsArray(x) == x.t = "array"
IsString(x) == x.t = "string"
\* x == null
IsNullish(x) == x.t \in {"undefined", "null"}
\* x && typeof x === 'object'
IsObjectLike(x) == x.t \in {"object", "array"}
\* a ?? b
Coalesce(a, b) == IF IsNullish(a) THEN b ELSE a
\* A string | null that is a non-empty string.
IsTruthyString(x) == x.t = "string" /\ x.v # ""

\* arr[i] for a 0-based i: undefined outside the array.
elementAt(items, i) == IF i >= 0 /\ i < Len(items) THEN items[i + 1] ELSE Undefined

\* Object.entries(x): the own enumerable properties, in order; an array's are
\* its indices.
ownProps(x) ==
  IF x.t = "object" THEN x.v
  ELSE IF x.t = "array" THEN [i \in 1..Len(x.v) |-> Prop(numberToString(i - 1), x.v[i])]
  ELSE <<>>

\* Position of the own property named key (0 when there is none).
propIndex(props, key) ==
  IF \E i \in 1..Len(props) : props[i].k = key
  THEN CHOOSE i \in 1..Len(props) : props[i].k = key
  ELSE 0

\* The value of the property at position i; undefined for position 0.
propValue(props, i) == IF i = 0 THEN Undefined ELSE props[i].v

\* record[key]
getProp(x, key) == propValue(ownProps(x), propIndex(ownProps(x), key))

(***************************************************************************)
(* Key lists (lines 21-47)                                                 *)
(***************************************************************************)
labelKeys == <<"label", "name", "title", "value", "id", "code">>

identifierKeys ==
  <<"fieldId", "field_id", "field", "fieldName", "field_name", "targetField",
    "target_field", "target", "id", "name", "key", "code", "column", "property">>

explicitValueKeys ==
  <<"value", "default", "defaultValue", "initial", "initialValue", "current", "selected">>

(***************************************************************************)
(* Key normalizer                                                          *)
(***************************************************************************)
\* The separators are removed and the letters keep their case.
sanitizeKeyCased(key) == replaceSeparatorRuns(key, "")

sanitizeKey(key) == toLowerCase(replaceSeparatorRuns(key, ""))

\* Lines 61-71: the Set of the seven spellings, without the empty ones.
keyVariantSet(trimmed, camel) ==
  SelectSeq(uniqueInOrder(<<trimmed,
                            toLowerCase(trimmed),
                            replaceSeparatorRuns(trimmed, ""),
                            replaceSeparatorRuns(trimmed, "_"),
                            camel,
                            toLowerCase(camel),
                            sanitizeKey(trimmed)>>),
            LAMBDA v : v # "")

\* The spellings of the input as it is given, without trimming it.
createKeyVariantsUntrimmed(input) ==
  IF input = "" THEN <<>> ELSE keyVariantSet(input, camelReplace(toLowerCase(input)))

createKeyVariants(input) ==
  IF trim(input) = "" THEN <<>>
  ELSE keyVariantSet(trim(input), camelReplace(toLowerCase(trim(input))))

(***************************************************************************)
(* Coercers and record lookup                                              *)
(***************************************************************************)
\* string | null, as Str(_) or Null.
toPrimitiveString(input) ==
  CASE input.t = "string" -> input
    [] input.t = "number" -> Str(numberToString(input.v))
    [] input.t = "boolean" -> Str(IF input.v THEN "true" ELSE "false")
    [] OTHER -> Null

\* Lines 99-104: the first label key whose value is a primitive.
labelFromKeys(record) ==
  LET found[n \in 1..(Len(labelKeys) + 1)] ==
        IF n > Len(labelKeys) THEN Null
        ELSE IF toPrimitiveString(getProp(record, labelKeys[n])) # Null
             THEN toPrimitiveString(getProp(record, labelKeys[n]))
        ELSE found[n + 1]
  IN found[1]

\* Lines 106-112: the first declared property, when its name is not empty.
labelFromFirstKey(props) ==
  IF props # <<>> /\ props[1].k # "" THEN toPrimitiveString(props[1].v) ELSE Null

toLabelString(input) ==
  IF toPrimitiveString(input) # Null THEN toPrimitiveString(input)
  ELSE IF IsArray(input) THEN Null
  ELSE IF IsObjectLike(input)
       THEN Coalesce(labelFromKeys(input), labelFromFirstKey(ownProps(input)))
  ELSE Null

\* Position of the last of the names that is k (Map.set overwrites).
lastIndexOf(names, k) ==
  CHOOSE i \in 1..Len(names) : names[i] = k /\ \A j \in (i + 1)..Len(names) : names[j] # k

\* A Map from the names to the positions they are last at.  The two Maps hold
\* references to the record's values: a reference is the position of the
\* property it was read from.
lastPositions(names) ==
  [k \in {names[i] : i \in 1..Len(names)} |-> lastIndexOf(names, k)]

lookupOf(props) ==
  [lower |-> lastPositions([i \in 1..Len(props) |-> toLowerCase(props[i].k)]),
   sanitized |-> lastPositions([i \in 1..Len(props) |-> sanitizeKey(props[i].k)])]

buildLookup(record) == lookupOf(ownProps(record))

mapGet(map, k) == IF k \in DOMAIN map THEN map[k] ELSE 0

\* The predicate argument of getValueFromRecord: none, or Array.isArray.
AnyValue == "undefined"
ArrayValue == "Array.isArray"

\* !predicate || predicate(value)
passes(predicate, value) == predicate = AnyValue \/ IsArray(value)

\* A position found in one of the Maps counts when its value is not undefined
\* and passes the predicate.
accepted(props, i, predicate) ==
  IF i # 0 /\ props[i].v # Undefined /\ passes(predicate, props[i].v) THEN i ELSE 0

firstNonZero(a, b, c) == IF a # 0 THEN a ELSE IF b # 0 THEN b ELSE c

\* The least element of a set of positions, 0 for the empty set.
minOf(S) == IF S = {} THEN 0 ELSE CHOOSE j \in S : \A i \in S : j <= i

\* Lines 136-143, for the first key j that is in the record and passes.
exactPosition(props, keys, j) == IF j = 0 THEN 0 ELSE propIndex(props, keys[j])

exactAt(props, keys, predicate) ==
  exactPosition(props, keys,
    minOf({j \in 1..Len(keys) :
             /\ propIndex(props, keys[j]) # 0
             /\ passes(predicate, props[propIndex(props, keys[j])].v)}))

\* Lines 145-151, for the first key j whose lower-case form hits.
lowerPosition(lookup, keys, j) ==
  IF j = 0 THEN 0 ELSE mapGet(lookup.lower, toLowerCase(keys[j]))

lowerAt(props, lookup, keys, predicate) ==
  lowerPosition(lookup, keys,
    minOf({j \in 1..Len(keys) :
             accepted(props, mapGet(lookup.lower, toLowerCase(keys[j])), predicate) # 0}))

\* Lines 153-159, for the first key j whose sanitized form hits.
sanitizedPosition(lookup, keys, j) ==
  IF j = 0 THEN 0 ELSE mapGet(lookup.sanitized, sanitizeKey(keys[j]))

sanitizedAt(props, lookup, keys, predicate) ==
  sanitizedPosition(lookup, keys,
    minOf({j \in 1..Len(keys) :
             accepted(props, mapGet(lookup.sanitized, sanitizeKey(keys[j])), predicate) # 0}))

\* The lower-case Map is asked before the record itself.
findInPropsLowerFirst(props, lookup, keys, predicate) ==
  firstNonZero(lowerAt(props, lookup, keys, predicate),
               exactAt(props, keys, predicate),
               sanitizedAt(props, lookup, keys, predicate))

\* The three loops of getValueFromRecord over the properties props of the
\* record: the position of the property whose value is returned (0: undefined).
findInProps(props, lookup, keys, predicate) ==
  firstNonZero(exactAt(props, keys, predicate),
               lowerAt(props, lookup, keys, predicate),
               sanitizedAt(props, lookup, keys, predicate))

findInRecord(record, lookup, keys, predicate) ==
  findInProps(ownProps(record), lookup, keys, predicate)

getValueFromRecord(record, lookup, keys, predicate) ==
  propValue(ownProps(record), findInRecord(record, lookup, keys, predicate))

\* Lines 178-183.
explicitOrLabel(record, explicitString) ==
  IF IsTruthyString(explicitString) THEN explicitString ELSE toLabelString(record)

RECURSIVE toValueString(_)
toValueString(input) ==
  IF toPrimitiveString(input) # Null THEN toPrimitiveString(input)
  ELSE IF IsArray(input) THEN Null
  ELSE IF IsObjectLike(input)
       THEN explicitOrLabel(input,
              toValueString(getValueFromRecord(input, buildLookup(input),
                                               explicitValueKeys, AnyValue)))
  ELSE Null

\* Array.isArray(value) ? value : undefined
arrayOrUndefined(value) == IF IsArray(value) THEN value ELSE Undefined

getArrayValue(record, lookup, keys) ==
  arrayOrUndefined(getValueFromRecord(record, lookup, keys, ArrayValue))

(***************************************************************************)
(* Option list builder                                                     *)
(***************************************************************************)
Option(value, label) == [value |-> value, label |-> label]

NoOptions == [seen |-> {}, options |-> <<>>]

\* The push without the test of the seen values.
pushOptionSeen(acc, value, label) ==
  IF ~IsTruthyString(value) THEN acc
  ELSE [seen |-> acc.seen \cup {value.v},
        options |-> Append(acc.options, Option(value.v, label.v))]

\* Lines 202-207 and 253-260: keep the option unless its value is empty or seen.
pushOption(acc, value, label) ==
  IF ~IsTruthyString(value) \/ value.v \in acc.seen THEN acc
  ELSE [seen |-> acc.seen \cup {value.v},
        options |-> Append(acc.options, Option(value.v, label.v))]

\* Lines 199-207.
addLeaf(acc, rawValue, rawLabel) ==
  pushOption(acc, Coalesce(rawValue, rawLabel), Coalesce(rawLabel, Coalesce(rawValue, rawLabel)))

\* The body of visit for an item that is no array.
visitLeaf(item, acc) == addLeaf(acc, toValueString(item), toLabelString(item))

RECURSIVE visit(_, _)
visit(item, acc) ==
  IF IsArray(item)
  THEN LET visited[i \in 0..Len(item.v)] == IF i = 0 THEN acc ELSE visit(item.v[i], visited[i - 1])
       IN visited[Len(item.v)]
  ELSE visitLeaf(item, acc)

\* input is a JavaScript array; the result is a sequence of options.
normalizeOptions(input) == visit(input, NoOptions).options

RECURSIVE flattenToArray(_)
flattenToArray(input) ==
  IF input = Undefined THEN <<>>
  ELSE IF IsArray(input)
       THEN LET flattened[i \in 0..Len(input.v)] ==
                  IF i = 0 THEN <<>> ELSE flattened[i - 1] \o flattenToArray(input.v[i])
            IN flattened[Len(input.v)]
  ELSE <<input>>

Max(a, b) == IF a >= b THEN a ELSE b

\* Lines 243-244.
labelCandidateAt(labelCandidates, valueCandidates, index) ==
  Coalesce(Coalesce(elementAt(labelCandidates, index),
                    elementAt(labelCandidates, Len(labelCandidates) - 1)),
           elementAt(valueCandidates, index))

\* Lines 245-246.
valueCandidateAt(valueCandidates, labelCandidate, index) ==
  Coalesce(Coalesce(elementAt(valueCandidates, index),
                    elementAt(valueCandidates, Len(valueCandidates) - 1)),
           labelCandidate)

\* Lines 248-251.
valueOrLabel(first, valueCandidate) ==
  IF IsTruthyString(first) THEN first ELSE toLabelString(valueCandidate)

\* Lines 248-260 for one index.
pairCandidates(acc, labelCandidate, valueCandidate) ==
  LET emit(value) ==
        pushOption(acc, value,
                   Coalesce(toLabelString(Coalesce(labelCandidate, valueCandidate)), value))
  IN emit(valueOrLabel(toValueString(valueCandidate), valueCandidate))

\* The loop of buildSelectOptions over the two flattened arrays.
pairOptions(labelCandidates, valueCandidates) ==
  LET loop[index \in 0..Max(Len(labelCandidates), Len(valueCandidates))] ==
        IF index = 0 THEN NoOptions
        ELSE pairCandidates(
               loop[index - 1],
               labelCandidateAt(labelCandidates, valueCandidates, index - 1),
               valueCandidateAt(valueCandidates,
                                labelCandidateAt(labelCandidates, valueCandidates, index - 1),
                                index - 1))
  IN loop[Max(Len(labelCandidates), Len(valueCandidates))].options

buildSelectOptions(labels, values) ==
  pairOptions(flattenToArray(labels),
              IF values = Undefined THEN <<>> ELSE flattenToArray(values))

(***************************************************************************)
(* Field descriptors: [id, label, type, externalDataPath,                  *)
(* externalDataValuePath]; an optional property is Str(_) or Undefined.    *)
(***************************************************************************)
\* Number.isFinite(numeric) ? numeric : undefined
finiteOrUndefined(numeric) == IF numeric.nan THEN Undefined ELSE Num(numeric.n)

\* Every primitive is accepted, a number field's string as it is.
convertInitialValueUnparsed(field, value) ==
  IF IsNullish(value) THEN Undefined
  ELSE IF field.type = "number" /\ value.t = "number" THEN value
  ELSE IF value.t \in {"string", "number", "boolean"} THEN toPrimitiveString(value)
  ELSE Undefined

convertInitialValue(field, value) ==
  IF IsNullish(value) THEN Undefined
  ELSE IF field.type = "number"
       THEN IF value.t = "number" THEN value
            ELSE IF IsString(value) /\ trim(value.v) # ""
                 THEN finiteOrUndefined(stringToNumber(value.v))
            ELSE Undefined
  ELSE IF field.type = "select"
       THEN IF value.t \in {"string", "number", "boolean"} THEN toPrimitiveString(value)
            ELSE Undefined
  ELSE IF IsString(value) THEN value
  ELSE IF value.t \in {"number", "boolean"} THEN toPrimitiveString(value)
  ELSE Undefined

(***************************************************************************)
(* Path parser and resolver                                                *)
(***************************************************************************)
IsPlainChar(c) == c \notin {".", "[", "]"}

RECURSIVE plainRunEnd(_, _)
plainRunEnd(s, i) ==
  IF i <= Len(s) /\ IsPlainChar(CharAt(s, i)) THEN plainRunEnd(s, i + 1) ELSE i

RECURSIVE digitRunEnd(_, _)
digitRunEnd(s, i) ==
  IF i <= Len(s) /\ IsDigit(CharAt(s, i)) THEN digitRunEnd(s, i + 1) ELSE i

\* The positions m where the quote that opens at position 2 of s closes and is
\* followed by "]".
quoteClosers(s) ==
  {m \in 3..(Len(s) - 1) : CharAt(s, m) = CharAt(s, 2) /\ CharAt(s, m + 1) = "]"}

\* Length of the match of \[(?:-?\d+|(["'])(.*?)\1)\] at the start of s, which
\* starts with "[" (0 when it does not match).
bracketMatchLength(s) ==
  LET match(from, digitsEnd, closers) ==
        IF digitsEnd > from /\ digitsEnd <= Len(s) /\ CharAt(s, digitsEnd) = "]"
        THEN digitsEnd
        ELSE IF CharAt(s, 2) \in {"\"", "'"} /\ closers # {}
             THEN (CHOOSE m \in closers : \A o \in closers : m <= o) + 1
        ELSE 0
  IN IF Len(s) < 2 THEN 0
     ELSE match(IF CharAt(s, 2) = "-" THEN 3 ELSE 2,
                digitRunEnd(s, IF CharAt(s, 2) = "-" THEN 3 ELSE 2),
                quoteClosers(s))

\* The token of length n at the start of s, then the tokens of the rest; no
\* token when n = 0, where the scan moves on by one character.
RECURSIVE matchPathTokens(_)
tokenThenRest(s, n) ==
  IF n = 0 THEN matchPathTokens(SubSeq(s, 2, Len(s)))
  ELSE <<SubSeq(s, 1, n)>> \o matchPathTokens(SubSeq(s, n + 1, Len(s)))

\* s.match(pathTokenPattern): the matches from left to right (none: the empty
\* sequence, where match returns null).
matchPathTokens(s) ==
  IF s = "" THEN <<>>
  ELSE IF IsPlainChar(CharAt(s, 1)) THEN tokenThenRest(s, plainRunEnd(s, 1) - 1)
  ELSE IF CharAt(s, 1) = "[" THEN tokenThenRest(s, bracketMatchLength(s))
  ELSE tokenThenRest(s, 0)

RECURSIVE stripLeadingDollars(_)
stripLeadingDollars(s) ==
  IF startsWith(s, "$") THEN stripLeadingDollars(SubSeq(s, 2, Len(s))) ELSE s

\* s.slice(1, -1)
sliceInner(s) == IF Len(s) < 2 THEN "" ELSE SubSeq(s, 2, Len(s) - 1)

\* Lines 325-334.
unquoteInner(inner) ==
  IF startsWith(inner, "\"") /\ endsWith(inner, "\"") THEN sliceInner(inner)
  ELSE IF startsWith(inner, "'") /\ endsWith(inner, "'") THEN sliceInner(inner)
  ELSE IF inner = "" THEN "[]"
  ELSE inner

\* The first map callback of parsePathSegments.
mapPathToken(segment) ==
  IF startsWith(segment, "[") /\ endsWith(segment, "]")
  THEN unquoteInner(trim(sliceInner(segment)))
  ELSE segment

\* Lines 321-339.
mapSegments(matches) ==
  SelectSeq([i \in 1..Len(matches) |-> trim(mapPathToken(matches[i]))],
            LAMBDA segment : segment # "")

parsePathSegments(path) ==
  IF trim(path) = "" THEN <<>>
  ELSE mapSegments(matchPathTokens(stripLeadingDollars(trim(path))))

\* An array result is pushed as one element.
pushResolvedWhole(results, resolved) ==
  IF resolved = Undefined THEN results ELSE Append(results, resolved)

\* Lines 363-370.
pushResolved(results, resolved) ==
  IF resolved = Undefined THEN results
  ELSE IF IsArray(resolved) THEN results \o resolved.v
  ELSE Append(results, resolved)

\* results.length > 0 ? results : undefined
nonEmptyArray(results) == IF Len(results) > 0 THEN Arr(results) ELSE Undefined

RECURSIVE traverse(_, _, _)
\* A negative index counts from the end of the array.
traverseIndexFromEnd(segments, value, index, numericIndex) ==
  IF numericIndex.nan THEN Undefined
  ELSE traverse(segments,
                elementAt(value.v, IF numericIndex.n < 0 THEN Len(value.v) + numericIndex.n
                                   ELSE numericIndex.n),
                index + 1)

\* Lines 377-381.
traverseIndex(segments, value, index, numericIndex) ==
  IF numericIndex.nan \/ numericIndex.n < 0 THEN Undefined
  ELSE traverse(segments, elementAt(value.v, numericIndex.n), index + 1)

\* Lines 388-391.
traverseNext(segments, nextValue, index) ==
  IF nextValue = Undefined THEN Undefined ELSE traverse(segments, nextValue, index + 1)

traverse(segments, value, index) ==
  IF index >= Len(segments) THEN value
  ELSE IF segments[index + 1] = "[]"
  THEN IF ~IsArray(value) THEN Undefined
       ELSE LET results[i \in 0..Len(value.v)] ==
                  IF i = 0 THEN <<>>
                  ELSE pushResolved(results[i - 1], traverse(segments, value.v[i], index + 1))
            IN nonEmptyArray(results[Len(value.v)])
  ELSE IF IsArray(value)
  THEN traverseIndex(segments, value, index, stringToNumber(segments[index + 1]))
  ELSE IF IsObjectLike(value)
  THEN traverseNext(segments,
                    getValueFromRecord(value, buildLookup(value),
                                       <<segments[index + 1]>>, AnyValue),
                    index)
  ELSE Undefined

\* Lines 344-397.
traverseFrom(segments, payload) ==
  IF Len(segments) = 0 THEN Undefined ELSE traverse(segments, payload, 0)

resolvePathValue(payload, path) == traverseFrom(parsePathSegments(path), payload)

(***************************************************************************)
(* Field data binder: the per-field path branch                            *)
(***************************************************************************)
\* An option list as a value, so that a result's options are a list or undefined.
Options(list) == [t |-> "options", v |-> list]

FieldData(initialValue, options) == [initialValue |-> initialValue, options |-> options]

\* Options(list) when the list is not empty, else undefined.
nonEmptyOptions(list) == IF Len(list) > 0 THEN Options(list) ELSE Undefined

\* The position of the first ";" or "," of s (0 when there is none).
firstCut(s) ==
  IF \E i \in 1..Len(s) : CharAt(s, i) \in {";", ","}
  THEN CHOOSE i \in 1..Len(s) :
         /\ CharAt(s, i) \in {";", ","}
         /\ \A j \in 1..(i - 1) : CharAt(s, j) \notin {";", ","}
  ELSE 0

\* s.split(/[;,]/)
RECURSIVE splitList(_)
splitAt(s, cut) ==
  IF cut = 0 THEN <<s>>
  ELSE <<SubSeq(s, 1, cut - 1)>> \o splitList(SubSeq(s, cut + 1, Len(s)))

splitList(s) == splitAt(s, firstCut(s))

\* raw.map((part) => part.trim()).filter(Boolean)
trimParts(raw) == SelectSeq([i \in 1..Len(raw) |-> trim(raw[i])], LAMBDA part : part # "")

\* The string taken as one part, without splitting.
splitPartsWhole(s) == trimParts(<<s>>)

\* value.split(/[;,]/).map((part) => part.trim()).filter(Boolean)
splitParts(s) == trimParts(splitList(s))

\* Lines 419-424: the first element of the array that convertInitialValue accepts.
firstConverted(field, items) ==
  LET found[i \in 1..(Len(items) + 1)] ==
        IF i > Len(items) THEN Undefined
        ELSE IF convertInitialValue(field, items[i]) # Undefined
             THEN convertInitialValue(field, items[i])
        ELSE found[i + 1]
  IN found[1]

optionArrayKeys == <<"options", "values", "items", "list", "choices", "data">>

\* Lines 412-427.
arrayFieldData(field, value) ==
  IF field.type = "select"
  THEN FieldData(Undefined, nonEmptyOptions(normalizeOptions(value)))
  ELSE FieldData(firstConverted(field, value.v), Undefined)

\* Lines 454-459.
recordOptions(optionArray) ==
  IF optionArray # Undefined /\ Len(optionArray.v) > 0
  THEN nonEmptyOptions(normalizeOptions(optionArray))
  ELSE Undefined

\* Lines 436-443.
explicitOrFallback(field, record, convertedExplicit) ==
  IF convertedExplicit # Undefined THEN convertedExplicit
  ELSE convertInitialValue(field, record)

\* Lines 429-463.
recordFieldData(field, record, lookup) ==
  FieldData(explicitOrFallback(field, record,
              convertInitialValue(field,
                getValueFromRecord(record, lookup, explicitValueKeys, AnyValue))),
            IF field.type = "select"
            THEN recordOptions(getArrayValue(record, lookup, optionArrayKeys))
            ELSE Undefined)

\* Lines 477-482.
partsOptions(parts) ==
  IF Len(parts) > 0
  THEN nonEmptyOptions(normalizeOptions(Arr([i \in 1..Len(parts) |-> Str(parts[i])])))
  ELSE Undefined

\* Lines 465-485.
scalarFieldData(field, value) ==
  FieldData(convertInitialValue(field, value),
            IF field.type = "select" /\ IsString(value)
            THEN partsOptions(splitParts(value.v))
            ELSE Undefined)

\* Lines 412-485.
unpairedFieldData(field, value) ==
  IF IsArray(value) THEN arrayFieldData(field, value)
  ELSE IF IsObjectLike(value) THEN recordFieldData(field, value, buildLookup(value))
  ELSE scalarFieldData(field, value)

\* Lines 405-410, then the rest.
pairedOrUnpaired(field, value, paired) ==
  IF Len(paired) > 0 THEN FieldData(Undefined, Options(paired))
  ELSE unpairedFieldData(field, value)

applyExplicitFieldData(field, value, valueOverride) ==
  IF field.type = "select" /\ valueOverride # Undefined
  THEN pairedOrUnpaired(field, value, buildSelectOptions(value, valueOverride))
  ELSE unpairedFieldData(field, value)

(***************************************************************************)
(* processExternalData                                                     *)
(*                                                                         *)
(* A run's state is a record st: the payload (the heap the run reads),     *)
(* the two output maps, the structural pass's aggregated map and flag,     *)
(* and whether an exception has been raised.  The maps are functions from  *)
(* field ids.                                                              *)
(***************************************************************************)
EmptyMap == [id \in {} |-> Undefined]

mapPut(map, key, value) ==
  [id \in DOMAIN map \cup {key} |-> IF id = key THEN value ELSE map[id]]

initialRun(payload) ==
  [payload |-> payload,
   selectOptions |-> EmptyMap,
   initialValues |-> EmptyMap,
   aggregated |-> EmptyMap,
   matchedByStructure |-> FALSE,
   threw |-> FALSE]

\* x?.trim(), as Str(_) or Undefined.
optionalTrim(x) == IF x = Undefined THEN Undefined ELSE Str(trim(x.v))

\* The two writes without the test of the initial value.
writeFieldDataUntested(st, field, data) ==
  [st EXCEPT
     !.initialValues = mapPut(@, field.id, data.initialValue),
     !.selectOptions = IF data.options # Undefined /\ Len(data.options.v) > 0
                       THEN mapPut(@, field.id, data.options.v) ELSE @]

\* Lines 615-621.
writeFieldData(st, field, data) ==
  [st EXCEPT
     !.initialValues = IF data.initialValue # Undefined
                       THEN mapPut(@, field.id, data.initialValue) ELSE @,
     !.selectOptions = IF data.options # Undefined /\ Len(data.options.v) > 0
                       THEN mapPut(@, field.id, data.options.v) ELSE @]

\* Lines 603-604, for the trimmed value path.
valueOverrideAt(payload, field, valuePath) ==
  IF field.type = "select" /\ valuePath # Undefined /\ valuePath.v # ""
  THEN resolvePathValue(payload, valuePath.v)
  ELSE Undefined

\* Lines 606-613.
resolvedStep(st, field, scopedValue, valueOverride) ==
  IF scopedValue = Undefined /\ valueOverride = Undefined THEN st
  ELSE writeFieldData(st, field,
         applyExplicitFieldData(field, Coalesce(scopedValue, valueOverride), valueOverride))

\* Lines 598-605, for the trimmed path.
pathStepAt(st, field, path) ==
  IF path = Undefined \/ path.v = "" THEN st
  ELSE resolvedStep(st, field,
                    resolvePathValue(st.payload, path.v),
                    valueOverrideAt(st.payload, field,
                                    optionalTrim(field.externalDataValuePath)))

\* Lines 597-623: the callback of the first fields.forEach.
pathStep(st, field) == pathStepAt(st, field, optionalTrim(field.externalDataPath))

\* keys.flatMap((key) => createKeyVariants(key))
RECURSIVE flatVariants(_)
flatVariants(keys) ==
  IF keys = <<>> THEN <<>>
  ELSE flatVariants(SubSeq(keys, 1, Len(keys) - 1)) \o createKeyVariants(keys[Len(keys)])

\* Lines 630-632.
identifierKeyVariants == uniqueInOrder(flatVariants(identifierKeys))

\* Lines 639-642 and 781.
fieldKeyVariants(field) == createKeyVariants(field.id) \o createKeyVariants(field.label)

\* Lines 643-649, for the field's key variants.
normalizedKeysOf(field, keyVariants) ==
  {sanitizeKey(keyVariants[i]) : i \in 1..Len(keyVariants)}
    \cup (IF field.id # "" THEN {sanitizeKey(field.id)} ELSE {})
    \cup (IF field.label # "" THEN {sanitizeKey(field.label)} ELSE {})

fieldNormalizedKeys(field) == normalizedKeysOf(field, fieldKeyVariants(field))

\* keyVariants.flatMap((variant) => [`${variant}${suffix}` for each suffix])
withSuffixes(keyVariants, suffixes) ==
  [i \in 1..(Len(keyVariants) * Len(suffixes)) |->
     keyVariants[((i - 1) \div Len(suffixes)) + 1] \o suffixes[((i - 1) % Len(suffixes)) + 1]]

valueSuffixes ==
  <<"Value", "_value", "Default", "_default", "DefaultValue", "_default_value",
    "Initial", "_initial", "InitialValue", "_initial_value">>

\* Lines 690-710.
structuralValueKeys(keyVariants) ==
  keyVariants
    \o withSuffixes(keyVariants, valueSuffixes)
    \o <<"value", "default", "defaultValue", "initial", "initialValue", "current">>

optionSuffixes == <<"Options", "_options", "Choices", "_choices", "List", "_list">>

\* Lines 721-735.
structuralOptionKeys(keyVariants) ==
  withSuffixes(keyVariants, optionSuffixes)
    \o <<"options", "values", "items", "list", "choices">>

\* No match by an identifier property.
matchesIdentifierNever(identifierValue, normalizedKeys) == FALSE

\* Lines 671-678.
matchesIdentifier(identifierValue, normalizedKeys) ==
  IsString(identifierValue) /\ sanitizeKey(identifierValue.v) \in normalizedKeys

\* Lines 667-679.
matchesField(record, lookup, normalizedKeys) ==
  \/ \E i \in 1..Len(ownProps(record)) : sanitizeKey(ownProps(record)[i].k) \in normalizedKeys
  \/ matchesIdentifier(getValueFromRecord(record, lookup, identifierKeyVariants, AnyValue),
                       normalizedKeys)

\* typeof entry !== 'object' alone: null passes.
skipsEntryUnlessTyped(entry) == entry.t \notin {"object", "array", "null"}

\* Line 654: the entries the structural pass leaves out.
skipsEntry(entry) == ~IsObjectLike(entry)

\* An aggregate: the initial value, the accumulated option array (Arr(_) or
\* undefined) and which array object that is: <<>> for an array the run
\* created, <<e, p>> for the array held by property p of payload entry e.
NoAggregate == [initialValue |-> Undefined, options |-> Undefined, optionsRef |-> <<>>]

\* One aggregate for all fields.
aggregateOfAny(st, fieldId) ==
  IF DOMAIN st.aggregated # {}
  THEN st.aggregated[CHOOSE id \in DOMAIN st.aggregated : TRUE]
  ELSE NoAggregate

\* aggregated.get(field.id) ?? {}
aggregateOf(st, fieldId) ==
  IF fieldId \in DOMAIN st.aggregated THEN st.aggregated[fieldId] ELSE NoAggregate

\* A later record's value replaces the initial value.
withInitialValueReplaced(aggregate, field, rawValue) ==
  IF rawValue # Undefined /\ convertInitialValue(field, rawValue) # Undefined
  THEN [aggregate EXCEPT !.initialValue = convertInitialValue(field, rawValue)]
  ELSE aggregate

\* Lines 714-719.
withInitialValue(aggregate, field, rawValue) ==
  IF rawValue # Undefined /\ aggregate.initialValue = Undefined
     /\ convertInitialValue(field, rawValue) # Undefined
  THEN [aggregate EXCEPT !.initialValue = convertInitialValue(field, rawValue)]
  ELSE aggregate

\* The options so far are put in front of the option array, in place.
accumulateOptionsInPlace(aggregate, optionArray, ref) ==
  [aggregate EXCEPT
     !.options = Arr((IF @ = Undefined THEN <<>> ELSE @.v) \o optionArray.v),
     !.optionsRef = ref]

\* Line 743: aggregate.options = [...(aggregate.options ?? []), ...optionArray]
\* builds a new array.
accumulateOptions(aggregate, optionArray, ref) ==
  [aggregate EXCEPT
     !.options = Arr((IF @ = Undefined THEN <<>> ELSE @.v) \o optionArray.v),
     !.optionsRef = <<>>]

\* aggregate.options is the first option array itself, and the later ones are
\* pushed onto it.
withOptionArrayPushed(aggregate, props, e, optionPos) ==
  IF optionPos # 0 /\ Len(props[optionPos].v.v) > 0
  THEN IF aggregate.options = Undefined
       THEN [aggregate EXCEPT !.options = props[optionPos].v, !.optionsRef = <<e, optionPos>>]
       ELSE [aggregate EXCEPT !.options = Arr(@.v \o props[optionPos].v.v)]
  ELSE aggregate

\* Lines 737-744, for the property position the option array was read from
\* (0: no option array).
withOptionArray(aggregate, props, e, optionPos) ==
  IF optionPos # 0 /\ Len(props[optionPos].v.v) > 0
  THEN accumulateOptions(aggregate, props[optionPos].v, <<e, optionPos>>)
  ELSE aggregate

\* The entry after the array held by its property p has been given the items.
writeEntry(entry, p, items) ==
  IF entry.t = "object"
  THEN Obj([entry.v EXCEPT ![p] = Prop(@.k, Arr(items))])
  ELSE Arr([entry.v EXCEPT ![p] = Arr(items)])

\* The payload after the array object ref has been given the items.
writeArray(payload, ref, items) ==
  Arr([payload.v EXCEPT ![ref[1]] = writeEntry(@, ref[2], items)])

\* Lines 683-686 and the effect of the aggregate's writes on the heap.
storeAggregate(st, fieldId, aggregate) ==
  [st EXCEPT
     !.matchedByStructure = TRUE,
     !.aggregated = mapPut(@, fieldId, aggregate),
     !.payload = IF aggregate.optionsRef # <<>>
                 THEN writeArray(@, aggregate.optionsRef, aggregate.options.v)
                 ELSE @]

\* Lines 737-740: the option array is the keyed one, else an array raw value.
optionPosition(props, valuePos, keyedPos) ==
  IF keyedPos # 0 THEN keyedPos
  ELSE IF valuePos # 0 /\ IsArray(props[valuePos].v) THEN valuePos
  ELSE 0

\* Lines 683-745, for the positions of the raw value and of the keyed option
\* array among the record's properties.
aggregateStep(st, e, field, props, valuePos, keyedPos) ==
  storeAggregate(st, field.id,
    withOptionArray(withInitialValue(aggregateOf(st, field.id), field,
                                     propValue(props, valuePos)),
                    props, e, optionPosition(props, valuePos, keyedPos)))

\* Lines 661-745, for one record.
recordStep(st, e, field, record, lookup, keyVariants) ==
  IF ~matchesField(record, lookup, normalizedKeysOf(field, keyVariants)) THEN st
  ELSE aggregateStep(st, e, field, ownProps(record),
         findInRecord(record, lookup, structuralValueKeys(keyVariants), AnyValue),
         findInRecord(record, lookup, structuralOptionKeys(keyVariants), ArrayValue))

\* Lines 661-745: the callback of the inner fields.forEach, for entry e.
structuralFieldStep(st, e, field) ==
  recordStep(st, e, field, st.payload.v[e], buildLookup(st.payload.v[e]),
             fieldKeyVariants(field))

\* Lines 653-746: the callback of payload.forEach, for entry e.  Reading the
\* properties of an entry that is no object raises a TypeError.
structuralStep(st, fields, e) ==
  LET perField[j \in 0..Len(fields)] ==
        IF j = 0 THEN st ELSE structuralFieldStep(perField[j - 1], e, fields[j])
  IN IF skipsEntry(st.payload.v[e]) THEN st
     ELSE IF ~IsObjectLike(st.payload.v[e]) THEN [st EXCEPT !.threw = TRUE]
     ELSE perField[Len(fields)]

\* selectOptions[fieldId] = options, when options.length > 0.
putOptions(st, fieldId, options) ==
  IF Len(options) > 0 THEN [st EXCEPT !.selectOptions = mapPut(@, fieldId, options)] ELSE st

\* The write without the test for an entry of the path pass.
mergeInitialValueOver(st, fieldId, aggregate) ==
  IF aggregate.initialValue # Undefined
  THEN [st EXCEPT !.initialValues = mapPut(@, fieldId, aggregate.initialValue)]
  ELSE st

\* Lines 749-751.
mergeInitialValue(st, fieldId, aggregate) ==
  IF aggregate.initialValue # Undefined /\ fieldId \notin DOMAIN st.initialValues
  THEN [st EXCEPT !.initialValues = mapPut(@, fieldId, aggregate.initialValue)]
  ELSE st

\* Lines 752-757.
mergeOptions(st, fieldId, aggregate) ==
  IF aggregate.options # Undefined /\ Len(aggregate.options.v) > 0
     /\ fieldId \notin DOMAIN st.selectOptions
  THEN putOptions(st, fieldId, normalizeOptions(aggregate.options))
  ELSE st

\* Lines 748-758: the callback of aggregated.forEach for one field id.
mergeAggregate(st, fieldId) ==
  mergeOptions(mergeInitialValue(st, fieldId, st.aggregated[fieldId]),
               fieldId, st.aggregated[fieldId])

\* Lines 762-768.
shareOptions(st, fields, options) ==
  LET shared[j \in 0..Len(fields)] ==
        IF j = 0 THEN st
        ELSE IF fields[j].type = "select" /\ fields[j].id \notin DOMAIN st.selectOptions
             THEN putOptions(shared[j - 1], fields[j].id, options)
             ELSE shared[j - 1]
  IN IF Len(options) > 0 THEN shared[Len(fields)] ELSE st

\* The pool is shared whether or not a field matched a record.
sharedPoolAlways(st, fields) == shareOptions(st, fields, normalizeOptions(st.payload))

\* Lines 760-769: the shared option pool.
sharedPoolStep(st, fields) ==
  IF st.matchedByStructure THEN st ELSE shareOptions(st, fields, normalizeOptions(st.payload))

\* Lines 748-758.  The aggregates are merged in the order of the fields; the
\* writes of different field ids do not interact.
mergeAggregates(st, fields) ==
  LET merged[j \in 0..Len(fields)] ==
        IF j = 0 THEN st
        ELSE IF fields[j].id \in DOMAIN st.aggregated
             THEN mergeAggregate(merged[j - 1], fields[j].id)
             ELSE merged[j - 1]
  IN merged[Len(fields)]

\* Lines 748-769.
mergeStep(st, fields) == sharedPoolStep(mergeAggregates(st, fields), fields)

genericArrayKeys == <<"options", "values", "items", "data", "list">>

genericOptionSuffixes == <<"Options", "_options", "List", "_list">>

\* Lines 789-794.
genericOptionKeys(keyVariants) == withSuffixes(keyVariants, genericOptionSuffixes)

\* Lines 784-787.
genericInitialValue(st, field, initialValue) ==
  IF initialValue # Undefined /\ field.id \notin DOMAIN st.initialValues
  THEN [st EXCEPT !.initialValues = mapPut(@, field.id, initialValue)]
  ELSE st

\* Lines 802-807.
genericOptions(st, field, optionArray) ==
  IF field.type = "select" /\ optionArray # Undefined /\ field.id \notin DOMAIN st.selectOptions
  THEN putOptions(st, field.id, normalizeOptions(optionArray))
  ELSE st

\* Lines 784-808, for the raw value and the keyed or generic option array.
genericWrite(st, field, rawValue, keyed) ==
  genericOptions(genericInitialValue(st, field, convertInitialValue(field, rawValue)),
                 field,
                 IF keyed = Undefined /\ IsArray(rawValue) THEN rawValue ELSE keyed)

\* Lines 780-808, for the payload record.
genericRecordStep(st, field, record, lookup, keyVariants) ==
  genericWrite(st, field,
               getValueFromRecord(record, lookup, keyVariants, AnyValue),
               Coalesce(getArrayValue(record, lookup, genericOptionKeys(keyVariants)),
                        getArrayValue(record, lookup, genericArrayKeys)))

\* Lines 780-810: the callback of the last fields.forEach.  Reading the
\* properties of null raises a TypeError.
genericStep(st, field) ==
  IF IsNullish(st.payload) THEN [st EXCEPT !.threw = TRUE]
  ELSE genericRecordStep(st, field, st.payload, buildLookup(st.payload),
                         fieldKeyVariants(field))

\* Line 774: whether the generic object pass runs for a payload that is no array.
entersGenericPass(payload) == IsObjectLike(payload)

\* Lines 597-623.
pathPass(st, fields) ==
  LET paths[j \in 0..Len(fields)] ==
        IF j = 0 THEN st ELSE pathStep(paths[j - 1], fields[j])
  IN paths[Len(fields)]

\* Lines 653-746.
structuralPass(st, fields) ==
  LET entries[e \in 0..Len(st.payload.v)] ==
        IF e = 0 THEN st
        ELSE IF entries[e - 1].threw THEN entries[e - 1]
        ELSE structuralStep(entries[e - 1], fields, e)
  IN entries[Len(st.payload.v)]

\* Lines 748-771, unless the structural pass has raised.
mergeUnlessThrew(st, fields) == IF st.threw THEN st ELSE mergeStep(st, fields)

\* Lines 780-810.
genericPass(st, fields) ==
  LET generic[j \in 0..Len(fields)] ==
        IF j = 0 THEN st
        ELSE IF generic[j - 1].threw THEN generic[j - 1]
        ELSE genericStep(generic[j - 1], fields[j])
  IN generic[Len(fields)]

\* Lines 625-813.
laterPasses(st, fields) ==
  IF IsArray(st.payload) THEN mergeUnlessThrew(structuralPass(st, fields), fields)
  ELSE IF entersGenericPass(st.payload) THEN genericPass(st, fields)
  ELSE st

\* The whole function: the final run state for (payload, fields).
processExternalData(payload, fields) ==
  laterPasses(pathPass(initialRun(payload), fields), fields)

(***************************************************************************)
(* loadExternalData                                                        *)
(***************************************************************************)
DemoUrl == "https://api.example.com/customers"

\* Lines 13-19.
demoDatasets ==
  Obj(<<Prop(DemoUrl,
             Obj(<<Prop("field-company", Str("Aurora Industries")),
                   Prop("field-quantity", Num(25)),
                   Prop("options", Arr(<<Str("Aurora Industries"), Str("Nordic Solutions"),
                                         Str("Helio Labs"), Str("Svea Partners")>>))>>))>>)

\* The names an object literal inherits from Object.prototype.
ObjectPrototypeNames ==
  {"constructor", "hasOwnProperty", "isPrototypeOf", "propertyIsEnumerable", "toLocaleString",
   "toString", "valueOf", "__proto__", "__defineGetter__", "__defineSetter__",
   "__lookupGetter__", "__lookupSetter__"}

\* key in object, for an object literal: own and inherited names.
hasProperty(object, key) == propIndex(ownProps(object), key) # 0 \/ key \in ObjectPrototypeNames

\* object[key]: the own property's value, else the inherited member.
readProperty(object, key) ==
  IF propIndex(ownProps(object), key) # 0 THEN getProp(object, key)
  ELSE IF key \in ObjectPrototypeNames THEN [t |-> "inherited", v |-> key]
  ELSE Undefined

\* What the transport does with a request: it answers with JSON ("ok"), it
\* answers with a status that is not ok ("status"), it gives no answer
\* ("network"), or the answer's body is not JSON ("json").
FetchOutcomes == {"ok", "status", "network", "json"}

Fetched(payload, isFallback) ==
  [t |-> "fetched", v |-> [payload |-> payload, isFallback |-> isFallback]]

\* The rejection of the promise with the error of the failed step.
Rejected(error) == [t |-> "rejected", v |-> error]

\* Lines 583-590: the catch block.
loadFallback(url, error, aborted) ==
  IF aborted THEN Rejected(error)
  ELSE IF hasProperty(demoDatasets, url) THEN Fetched(readProperty(demoDatasets, url), TRUE)
  ELSE Rejected(error)

\* Lines 566-591.  outcome and body are what the transport does, aborted is
\* signal.aborted when the catch block runs.
loadExternalData(url, outcome, body, aborted) ==
  IF outcome = "ok" THEN Fetched(body, FALSE) ELSE loadFallback(url, outcome, aborted)

(***************************************************************************)
(* FormRunner (components/FormRunner.tsx)                                  *)
(*                                                                         *)
(* The component's state is its props (nodes, edges) and its useState      *)
(* cells as of the last commit.  A call of a set function appends an       *)
(* update to the queue; a render applies the queued updates in the order   *)
(* of the queue; the commit that ends it schedules the passive effects     *)
(* whose dependencies have changed, and these run in the order of their    *)
(* declaration before the next render.  Event handlers and effects read    *)
(* the values of the last commit.  The status banner and the isSubmitting  *)
(* flag are written only and are left out.                                 *)
(***************************************************************************)
\* The id of no node (null).
NoNode == "null"

RunnerNode(id, nodeFields, outcomes, authentication) ==
  [id |-> id, fields |-> nodeFields, outcomes |-> outcomes, authentication |-> authentication]

RunnerEdge(source, sourceHandle, target) ==
  [source |-> source, sourceHandle |-> sourceHandle, target |-> target]

\* Lines 498-499: JSON.stringify of undefined, {type:'none'} or
\* {type:'bearer',token}.
createAuthSignature(authentication) ==
  IF authentication = Undefined THEN Undefined
  ELSE Str("{\"type\":\"" \o authentication.v.type \o "\""
           \o (IF authentication.v.type = "bearer"
               THEN ",\"token\":\"" \o authentication.v.token \o "\""
               ELSE "")
           \o "}")

\* Lines 543-557.  A number input gives '' or Number(text) of a valid number,
\* so that no stored number is NaN.
hasFilledValue(field, value) ==
  IF value = Undefined \/ value = Null THEN FALSE
  ELSE IF field.type = "number" THEN value.t = "number"
  ELSE IF value.t = "string" THEN trim(value.v) # ""
  ELSE TRUE

\* Lines 569-574.
startNodeId(nodes, edges) ==
  IF Len(nodes) = 0 THEN NoNode
  ELSE IF \E i \in DOMAIN nodes : \A e \in DOMAIN edges : edges[e].target # nodes[i].id
       THEN nodes[minOf({i \in DOMAIN nodes :
                           \A e \in DOMAIN edges : edges[e].target # nodes[i].id})].id
       ELSE nodes[1].id

\* Line 599.
activeNodeId(trail) == IF trail = <<>> THEN NoNode ELSE trail[Len(trail)]

\* Line 600: the position of the active node in nodes (0: null).
activeNodeAt(nodes, trail) ==
  minOf({i \in DOMAIN nodes : nodes[i].id = activeNodeId(trail)})

\* activeNode.data.fields (no fields without an active node).
activeFields(nodes, trail) ==
  IF activeNodeAt(nodes, trail) = 0 THEN <<>> ELSE nodes[activeNodeAt(nodes, trail)].fields

\* formState[fieldId]
storedValue(formState, fieldId) ==
  IF fieldId \in DOMAIN formState THEN formState[fieldId] ELSE Undefined

\* An ExternalFieldState (lines 501-516); the properties a status does not
\* have hold their defaults.
ExternalState(status, url, authSignature) ==
  [status |-> status, url |-> url, authSignature |-> authSignature, error |-> "",
   raw |-> Undefined, selectOptions |-> <<>>, initialValue |-> Undefined,
   appliedInitialValue |-> FALSE, isFallback |-> FALSE]

isSuccessState(states, fieldId) ==
  fieldId \in DOMAIN states /\ states[fieldId].status = "success"

\* An update of the queue: the set function's argument, by kind.
Update(kind, arg) == [kind |-> kind, arg |-> arg]

\* Lines 625-648: the states of the active fields (the same object when
\* nothing is dropped).
pruneStates(current, activeFieldIds) ==
  [id \in DOMAIN current \cap activeFieldIds |-> current[id]]

\* Lines 665-669.
removeState(current, fieldId) == [id \in DOMAIN current \ {fieldId} |-> current[id]]

\* Lines 674-683.
keepsExisting(current, fieldId, url, authSignature) ==
  /\ fieldId \in DOMAIN current
  /\ current[fieldId].url = url
  /\ current[fieldId].authSignature = authSignature
  /\ current[fieldId].status \in {"loading", "success"}

\* Lines 673-688.
loadingState(current, request) ==
  IF keepsExisting(current, request.fieldId, request.url, request.authSignature)
  THEN current
  ELSE mapPut(current, request.fieldId,
              ExternalState("loading", request.url, request.authSignature))

\* Lines 701-706: the latest state is of another url or signature.
isStale(current, fieldId, url, authSignature) ==
  /\ fieldId \in DOMAIN current
  /\ (current[fieldId].url # url \/ current[fieldId].authSignature # authSignature)

\* The stale completion is stored like every other.
successStateAlways(current, loaded) ==
  mapPut(current, loaded.fieldId,
         [ExternalState("success", loaded.url, loaded.authSignature)
            EXCEPT !.raw = loaded.raw, !.selectOptions = loaded.selectOptions,
                   !.initialValue = loaded.initialValue, !.isFallback = loaded.isFallback])

\* Lines 699-724.
successState(current, loaded) ==
  IF isStale(current, loaded.fieldId, loaded.url, loaded.authSignature) THEN current
  ELSE mapPut(current, loaded.fieldId,
              [ExternalState("success", loaded.url, loaded.authSignature)
                 EXCEPT !.raw = loaded.raw, !.selectOptions = loaded.selectOptions,
                        !.initialValue = loaded.initialValue, !.isFallback = loaded.isFallback])

\* Lines 730-738.
errorState(current, failed) ==
  mapPut(current, failed.fieldId,
         [ExternalState("error", failed.url, failed.authSignature) EXCEPT !.error = failed.error])

\* processed.selectOptions[fieldId] ?? []
processedOptions(processed, fieldId) ==
  IF fieldId \in DOMAIN processed.selectOptions THEN processed.selectOptions[fieldId] ELSE <<>>

\* processed.initialValues[fieldId]
processedInitialValue(processed, fieldId) ==
  IF fieldId \in DOMAIN processed.initialValues THEN processed.initialValues[fieldId]
  ELSE Undefined

\* Lines 763-770.
reprocessedState(state, options, initialValue) ==
  IF state.selectOptions # options \/ state.initialValue # initialValue
  THEN [state EXCEPT !.selectOptions = options, !.initialValue = initialValue,
                     !.appliedInitialValue = FALSE]
  ELSE state

\* Lines 755-761.
reprocessField(field, state, processed) ==
  reprocessedState(state, processedOptions(processed, field.id),
                   processedInitialValue(processed, field.id))

\* Lines 751-774.
reprocessStates(current, nodeFields) ==
  [id \in DOMAIN current |->
     IF current[id].status = "success" /\ \E i \in DOMAIN nodeFields : nodeFields[i].id = id
     THEN reprocessField(nodeFields[CHOOSE i \in DOMAIN nodeFields : nodeFields[i].id = id],
                         current[id],
                         processExternalData(current[id].raw,
                           <<nodeFields[CHOOSE i \in DOMAIN nodeFields : nodeFields[i].id = id]>>))
     ELSE current[id]]

\* Lines 789-792: the fields the updater pushes to fieldsToMark.
marksField(states, fieldId) ==
  isSuccessState(states, fieldId) /\ ~states[fieldId].appliedInitialValue

fieldsToMark(nodeFields, states) ==
  {nodeFields[i].id : i \in {j \in DOMAIN nodeFields : marksField(states, nodeFields[j].id)}}

\* The field's initial value is written over whatever the form holds.
writesInitialValueAlways(field, current, states) ==
  marksField(states, field.id) /\ states[field.id].initialValue # Undefined

\* Lines 789-801: the field's initial value is written.
writesInitialValue(field, current, states) ==
  /\ marksField(states, field.id)
  /\ states[field.id].initialValue # Undefined
  /\ ~hasFilledValue(field, storedValue(current, field.id))

\* Lines 784-805: the updater of the apply effect.
applyInitialValues(current, nodeFields, states) ==
  [id \in DOMAIN current
           \cup {nodeFields[i].id :
                   i \in {j \in DOMAIN nodeFields : writesInitialValue(nodeFields[j], current, states)}}
     |-> IF \E i \in DOMAIN nodeFields :
              nodeFields[i].id = id /\ writesInitialValue(nodeFields[i], current, states)
         THEN states[id].initialValue
         ELSE current[id]]

\* Lines 810-820: the updater that marks the fields.
markApplied(current, marked) ==
  [id \in DOMAIN current |->
     IF id \in marked /\ marksField(current, id)
     THEN [current[id] EXCEPT !.appliedInitialValue = TRUE]
     ELSE current[id]]

\* String(currentValue)
stringOf(value) == IF value.t = "string" THEN value.v ELSE toPrimitiveString(value).v

\* No field is reset.
resetsFieldNever(field, current, states) == FALSE

\* Lines 831-843: the select field's value is reset.
resetsField(field, current, states) ==
  /\ field.type = "select"
  /\ isSuccessState(states, field.id)
  /\ Len(states[field.id].selectOptions) # 0
  /\ storedValue(current, field.id) \notin {Undefined, Null, Str("")}
  /\ \A k \in DOMAIN states[field.id].selectOptions :
       states[field.id].selectOptions[k].value # stringOf(storedValue(current, field.id))

\* Lines 826-847: the updater of the select reset effect.
resetSelectValues(current, nodeFields, states) ==
  [id \in DOMAIN current |->
     IF \E i \in DOMAIN nodeFields :
          nodeFields[i].id = id /\ resetsField(nodeFields[i], current, states)
     THEN Str("")
     ELSE current[id]]

\* The value of the trail cell after the update.
trailAfter(trail, update) ==
  CASE update.kind = "setTrail" -> update.arg
    [] update.kind = "goBack" -> SubSeq(trail, 1, Len(trail) - 1)
    [] update.kind = "advance" -> Append(trail, update.arg)
    [] OTHER -> trail

\* The value of the outcomeSelection cell after the update.
outcomeSelectionAfter(outcomeSelection, update) ==
  CASE update.kind = "setOutcomeSelection" -> update.arg
    [] update.kind = "selectOutcome" -> mapPut(outcomeSelection, update.arg.nodeId, update.arg.outcome)
    [] OTHER -> outcomeSelection

\* The value of the formState cell after the update.
formStateAfter(formState, update) ==
  CASE update.kind = "setFormState" -> update.arg
    [] update.kind = "updateFieldValue" -> mapPut(formState, update.arg.fieldId, update.arg.value)
    [] update.kind = "applyInitialValues" ->
         applyInitialValues(formState, update.arg.fields, update.arg.states)
    [] update.kind = "resetSelectValues" ->
         resetSelectValues(formState, update.arg.fields, update.arg.states)
    [] OTHER -> formState

\* The value of the externalFieldStates cell after the update.
statesAfter(current, update) ==
  CASE update.kind = "setExternalFieldStates" -> update.arg
    [] update.kind = "pruneStates" -> pruneStates(current, update.arg)
    [] update.kind = "removeState" -> removeState(current, update.arg)
    [] update.kind = "loadingState" -> loadingState(current, update.arg)
    [] update.kind = "successState" -> successState(current, update.arg)
    [] update.kind = "errorState" -> errorState(current, update.arg)
    [] update.kind = "reprocessStates" -> reprocessStates(current, update.arg)
    [] update.kind = "markApplied" -> markApplied(current, update.arg)
    [] OTHER -> current

\* The update gives the externalFieldStates cell a new object (the updaters
\* that find nothing to change return the object they were given).
isNewStates(current, update, after) ==
  CASE update.kind \in {"setExternalFieldStates", "errorState"} -> TRUE
    [] update.kind = "successState" ->
         ~isStale(current, update.arg.fieldId, update.arg.url, update.arg.authSignature)
    [] OTHER -> after # current

\* The kinds of update that are calls of a set function of the component (a
\* change of the props is the parent's).
isStateUpdate(update) == update.kind # "props"

\* Lines 586-597: the updates of the reset effect.
resetUpdates(start) ==
  (IF start # NoNode
   THEN <<Update("setTrail", <<start>>), Update("setOutcomeSelection", EmptyMap)>>
   ELSE <<Update("setTrail", <<>>)>>)
  \o <<Update("setFormState", EmptyMap), Update("setExternalFieldStates", EmptyMap)>>

\* field.externalDataUrl?.trim(), '' for a field without one.
trimmedUrl(field) ==
  IF field.externalDataUrl = Undefined THEN "" ELSE trim(field.externalDataUrl.v)

\* Lines 660-688: the update the fetch effect makes for a field.
fetchUpdate(field, authSignature) ==
  IF trimmedUrl(field) = "" THEN Update("removeState", field.id)
  ELSE Update("loadingState",
              [fieldId |-> field.id, url |-> trimmedUrl(field), authSignature |-> authSignature])

\* Lines 690-694: the request the fetch effect starts for a field, with what
\* its continuation has closed over.
Request(field, authentication) ==
  [field |-> field, url |-> trimmedUrl(field), authentication |-> authentication,
   aborted |-> FALSE]

\* Lines 660-694: the requests the effect starts, in the order of the fields.
startedRequests(nodeFields, authentication) ==
  [i \in DOMAIN SelectSeq(nodeFields, LAMBDA f : trimmedUrl(f) # "") |->
     Request(SelectSeq(nodeFields, LAMBDA f : trimmedUrl(f) # "")[i], authentication)]

\* The requests in flight without the one that has been settled.
removeAt(requests, i) ==
  [k \in 1..(Len(requests) - 1) |-> IF k < i THEN requests[k] ELSE requests[k + 1]]

\* Lines 741-743: the cleanup aborts every controller of the effect.
abortAll(fetches) == [i \in DOMAIN fetches |-> [fetches[i] EXCEPT !.aborted = TRUE]]

\* Lines 696-724: the update of a continuation whose request has succeeded.
successUpdate(request, loaded, processed) ==
  Update("successState",
         [fieldId |-> request.field.id, url |-> request.url,
          authSignature |-> createAuthSignature(request.authentication),
          raw |-> loaded.payload,
          selectOptions |-> processedOptions(processed, request.field.id),
          initialValue |-> processedInitialValue(processed, request.field.id),
          isFallback |-> loaded.isFallback])

\* Lines 725-739: the catch block.
errorUpdates(request, error) ==
  IF request.aborted THEN <<>>
  ELSE <<Update("errorState",
                [fieldId |-> request.field.id, url |-> request.url,
                 authSignature |-> createAuthSignature(request.authentication),
                 error |-> error])>>

\* Lines 696-739, from the result of processExternalData on.
processedUpdates(request, loaded, processed) ==
  IF processed.threw THEN errorUpdates(request, "exception")
  ELSE <<successUpdate(request, loaded, processed)>>

\* Lines 696-739: the updates the continuation of a request makes when the
\* promise of loadExternalData is settled.
settledUpdates(request, settled) ==
  IF settled.t = "fetched"
  THEN processedUpdates(request, settled.v,
                        processExternalData(settled.v.payload, <<request.field>>))
  ELSE errorUpdates(request, settled.v)

\* Lines 866-868: the first required field that is not filled (0: none).
missingFieldAt(nodeFields, formState) ==
  minOf({i \in DOMAIN nodeFields :
           nodeFields[i].required
           /\ ~hasFilledValue(nodeFields[i], storedValue(formState, nodeFields[i].id))})

\* Line 874: outcomeSelection[activeNode.id] ?? activeNode.data.outcomes[0]?.id
selectedOutcome(node, outcomeSelection) ==
  IF node.id \in DOMAIN outcomeSelection THEN outcomeSelection[node.id]
  ELSE IF node.outcomes # <<>> THEN node.outcomes[1]
  ELSE ""

\* Lines 875-877: the position of the first edge of the source with the
\* handle (0: none).
nextEdgeAt(edges, source, outcome) ==
  IF outcome = "" THEN 0
  ELSE minOf({e \in DOMAIN edges : edges[e].source = source /\ edges[e].sourceHandle = outcome})

\* Lines 1011-1020: the values the select of a field offers besides ''.
offeredValues(field, states) ==
  IF isSuccessState(states, field.id) /\ Len(states[field.id].selectOptions) > 0
  THEN {states[field.id].selectOptions[k].value : k \in DOMAIN states[field.id].selectOptions}
  ELSE {field.options[k] : k \in DOMAIN field.options}

\* User events (edits, selections, back, submit) in one session of the runner.
MaxEvents == 2
\* Changes of the props (nodes, edges) while the runner is mounted.
MaxImports == 1
\* Tasks (user events, answers, imports) that run between the scheduling of
\* the effects or of a render and their run.
MaxWaiting == 1

RunnerField(id, label, type, required, options, url) ==
  [id |-> id, label |-> label, type |-> type, required |-> required, options |-> options,
   externalDataUrl |-> url, externalDataPath |-> Undefined, externalDataValuePath |-> Undefined]

CompanySelect ==
  RunnerField("field-company", "Company", "select", FALSE, <<"Acme", "Bolt">>, Str(DemoUrl))
QuantityInput ==
  RunnerField("field-quantity", "Quantity", "number", TRUE, <<>>, Str(" /api/colors "))
RunnerFieldPool == {CompanySelect, QuantityInput}

\* activeNode.data.authentication
Bearer(token) == [t |-> "authentication", v |-> [type |-> "bearer", token |-> token]]

StepOne(field, authentication) ==
  RunnerNode("step-1", <<field>>, <<"next", "finish">>, authentication)
StepTwo == RunnerNode("step-2", <<>>, <<>>, Undefined)

Flow(flowNodes, flowEdges) == [nodes |-> flowNodes, edges |-> flowEdges]

\* A first step with the field and a last step without fields.
TwoSteps(field) ==
  Flow(<<StepOne(field, Undefined), StepTwo>>, <<RunnerEdge("step-1", "next", "step-2")>>)
\* The same with a bearer token on the first step.
TwoStepsBearer(field) ==
  Flow(<<StepOne(field, Bearer("t")), StepTwo>>, <<RunnerEdge("step-1", "next", "step-2")>>)
\* The same with the field bound to a path of the response.
TwoStepsBound(field) ==
  Flow(<<StepOne([field EXCEPT !.externalDataPath = Str("alt")], Undefined), StepTwo>>,
       <<RunnerEdge("step-1", "next", "step-2")>>)
\* The same with the edge turned round, so that the last step is the start.
TwoStepsReversed(field) ==
  Flow(<<StepOne(field, Undefined), StepTwo>>, <<RunnerEdge("step-2", "back", "step-1")>>)
NoSteps == Flow(<<>>, <<>>)

\* The flows with the field that the designer can put in place of another.
Flows(field) ==
  {TwoSteps(field), TwoStepsBearer(field), TwoStepsBound(field), TwoStepsReversed(field),
   NoSteps}

\* The field of the flow, with its binding taken off.
fieldOf(flowNodes) ==
  IF flowNodes = <<>> THEN CompanySelect
  ELSE [flowNodes[1].fields[1] EXCEPT !.externalDataPath = Undefined]

\* App.tsx, line 298.
SubmissionUrls == {"https://httpbin.org/post"}

\* What the server answers.
HelioBody ==
  Obj(<<Prop("field-company", Str("Helio Labs")), Prop("field-quantity", Num(7)),
        Prop("options", Arr(<<Str("Helio Labs"), Str("Svea Partners")>>)),
        Prop("alt", Obj(<<Prop("value", Str("Nordic")), Prop("options", Arr(<<Str("Nordic")>>))>>))>>)
ZetaBody ==
  Obj(<<Prop("field-company", Str("Zeta")), Prop("options", Arr(<<Str("Helio Labs")>>))>>)
Bodies == {HelioBody, ZetaBody}

\* What the user can put into the control of a field (lines 1031 and 1054).
EnteredValues(field, states) ==
  IF field.type = "select" THEN {Str(v) : v \in offeredValues(field, states) \cup {""}}
  ELSE IF field.type = "number" THEN {Str(""), Num(3)}
  ELSE {Str("  "), Str("x")}

(***************************************************************************)
(* Bounds and inputs                                                       *)
(***************************************************************************)
\* Fields in one call of processExternalData.
MaxFields == 2
\* Entries of a payload array.
MaxEntries == 2
\* Items of an array handed to normalizeOptions or buildSelectOptions.
MaxItems == 3
\* Calls of processExternalData a caller makes on the same payload and fields.
MaxRuns == 2

Field(id, label, type, path, valuePath) ==
  [id |-> id, label |-> label, type |-> type,
   externalDataPath |-> path, externalDataValuePath |-> valuePath]

QtyField == Field("qty", "Quantity", "number", Undefined, Undefined)
CompanyField == Field("company", "Company", "text", Undefined, Undefined)
ColorField == Field("color", "Color", "select", Undefined, Undefined)

FieldPool ==
  {QtyField,
   [QtyField EXCEPT !.externalDataPath = Str("[1].qty")],
   [QtyField EXCEPT !.externalDataPath = Str(" $.data.qty ")],
   CompanyField,
   [CompanyField EXCEPT !.externalDataPath = Str("data.items[].value")],
   ColorField,
   [ColorField EXCEPT !.externalDataPath = Str("[0].colorOptions")],
   [ColorField EXCEPT !.externalDataPath = Str("data.colors"),
                      !.externalDataValuePath = Str("data.codes")]}

\* The field lists: up to MaxFields descriptors with distinct ids.
FieldLists ==
  {fs \in UNION {[1..n -> FieldPool] : n \in 1..MaxFields} :
     \A i, j \in DOMAIN fs : i # j => fs[i].id # fs[j].id}

QtyRecord == Obj(<<Prop("fieldId", Str("qty")), Prop("value", Num(5))>>)
CompanyRecord == Obj(<<Prop("fieldId", Str("company")), Prop("value", Str("Acme"))>>)

\* {"Color":"red","colorOptions":["red","blue"]}
ColorRecord ==
  Obj(<<Prop("Color", Str("red")), Prop("colorOptions", Arr(<<Str("red"), Str("blue")>>))>>)

\* {"name":"color","value":"green","options":["green","red"]}
NamedColorRecord ==
  Obj(<<Prop("name", Str("color")), Prop("value", Str("green")),
        Prop("options", Arr(<<Str("green"), Str("red")>>))>>)

\* {"id":17,"name":"qty","value":9}
NumberedRecord == Obj(<<Prop("id", Num(17)), Prop("name", Str("qty")), Prop("value", Num(9))>>)

EntryPool ==
  {QtyRecord,
   CompanyRecord,
   NumberedRecord,
   Obj(<<Prop("qty", Str("7"))>>),
   ColorRecord,
   NamedColorRecord,
   Null,
   Str("red"),
   Arr(<<Num(1)>>)}

NestedPayload ==
  Obj(<<Prop("data", Obj(<<Prop("items", Arr(<<Obj(<<Prop("value", Num(1))>>),
                                                Obj(<<Prop("value", Num(2))>>),
                                                Obj(<<Prop("x", Num(3))>>)>>))>>))>>)

ObjectPayloads ==
  {NestedPayload,
   Obj(<<Prop("color", Str("red")),
         Prop("QTY", Num(25)),
         Prop("options", Arr(<<Str("red"), Str("blue")>>)),
         Prop("data", Obj(<<Prop("qty", Str("42")),
                            Prop("colors", Arr(<<Str("Red"), Str("Blue")>>)),
                            Prop("codes", Arr(<<Str("r"), Str("b")>>))>>))>>),
   Obj(<<Prop("Company", Null), Prop("qty", Str("abc")),
         Prop("color_list", Arr(<<Obj(<<Prop("value", Str("g")), Prop("label", Str("Green"))>>),
                                   Str("")>>))>>),
   Obj(<<>>)}

ScalarPayloads == {Null, Num(1), Str("red; blue"), Bool(TRUE)}

ArrayPayloads == {Arr(es) : es \in UNION {[1..n -> EntryPool] : n \in 0..MaxEntries}}

Payloads == ArrayPayloads \cup ObjectPayloads \cup ScalarPayloads

\* {"a":{"b":["x","y"],"n":null}}
IndexPayload ==
  Obj(<<Prop("a", Obj(<<Prop("b", Arr(<<Str("x"), Str("y")>>)), Prop("n", Null)>>))>>)

\* The calls of resolvePathValue: [fn, a: the payload, b: the path].
PathPool ==
  {"data.items[].value", "data.items[1].value", "data.items", " $.data.qty ",
   "data['colors'][1]", "data[\"codes\"][0]", "[1].qty", "[0].colorOptions[-1]",
   "DATA.Colors[5]", "data..qty", "$$", "",
   "a.b[0]", "a.b[5]", "a.b[-1]", "a.b.1", "a.b.x", "a.b[0].z", "a.n.z",
   "data[qty", "data[qty]", "[", " $ ", "  ",
   "data.items['[]'].value", "data.items['[]'].zzz", "data.items[\"[]\"]", "data['[]']",
   "['[]'].qty", "a.b[0]['[]']", "groups['[]'].tags", "groups['[]'].tags['[]']",
   "groups['[]'].x"}

\* {"groups":[{"tags":["a","b"]},{"tags":[]},{"tags":["c"]},{"x":1}]}
GroupsPayload ==
  Obj(<<Prop("groups", Arr(<<Obj(<<Prop("tags", Arr(<<Str("a"), Str("b")>>))>>),
                             Obj(<<Prop("tags", Arr(<<>>))>>),
                             Obj(<<Prop("tags", Arr(<<Str("c")>>))>>),
                             Obj(<<Prop("x", Num(1))>>)>>))>>)

ResolvePayloads ==
  ObjectPayloads \cup ScalarPayloads
    \cup {IndexPayload, GroupsPayload, Arr(<<QtyRecord, Obj(<<Prop("qty", Str("7"))>>)>>)}

ResolveCalls ==
  {[fn |-> "resolvePathValue", a |-> p, b |-> Str(path)] :
     p \in ResolvePayloads, path \in PathPool}

\* The items of the arrays handed to normalizeOptions.
ItemPool ==
  {Str("a"), Str("b"), Str(""), Null, Num(3),
   Obj(<<Prop("value", Str("a")), Prop("label", Str("Alpha"))>>),
   Obj(<<Prop("title", Str("B")), Prop("id", Num(3))>>),
   Arr(<<Str("b"), Obj(<<Prop("value", Str("a")), Prop("label", Str("Second"))>>)>>)}

ArraysOver(pool) == {Arr(items) : items \in UNION {[1..n -> pool] : n \in 0..MaxItems}}

\* The calls of normalizeOptions: [fn, a: the input array].
NormalizeCalls ==
  {[fn |-> "normalizeOptions", a |-> input, b |-> Undefined] : input \in ArraysOver(ItemPool)}

LabelInputs == {Undefined, Str("X")} \cup ArraysOver({Str("A"), Str("B"), Str("C"), Null})
ValueInputs == {Undefined, Str("X")} \cup ArraysOver({Str("1"), Str("2"), Null})

\* The calls of buildSelectOptions: [fn, a: labels, b: values].
BuildCalls ==
  {[fn |-> "buildSelectOptions", a |-> labels, b |-> values] :
     labels \in LabelInputs, values \in ValueInputs}

\* The raw values handed to convertInitialValue.
RawValuePool ==
  {Undefined, Null, Num(42), Num(0), Num(-3), Str("42"), Str(" 42 "), Str("-7"), Str("abc"),
   Str("4x"), Str(""), Str("  "), Bool(TRUE), Bool(FALSE),
   Obj(<<Prop("value", Num(1))>>), Arr(<<Num(1)>>), Arr(<<>>)}

FieldTypes == {"number", "select", "text"}

\* The calls of convertInitialValue: [fn, a: the raw value, b: the field's type].
ConvertCalls ==
  {[fn |-> "convertInitialValue", a |-> value, b |-> Str(type)] :
     value \in RawValuePool, type \in FieldTypes}

\* The values handed to applyExplicitFieldData: scalars, and one array and one
\* record for the other branches.
ExplicitValuePool ==
  {Str("red, green;red"), Str(" a ;; b,"), Str(";"), Str(""), Str("blue"), Str("42"), Str("7,8"),
   Num(7), Bool(TRUE), Null, Undefined,
   Arr(<<Str("x;y")>>), Obj(<<Prop("value", Str("x;y"))>>)}

\* The calls of applyExplicitFieldData without a value override:
\* [fn, a: the resolved value, b: the field's type].
ExplicitCalls ==
  {[fn |-> "applyExplicitFieldData", a |-> value, b |-> Str(type)] :
     value \in ExplicitValuePool, type \in FieldTypes}

\* {"value":null,"default":"d"}
NullValueRecord == Obj(<<Prop("value", Null), Prop("default", Str("d"))>>)

\* The items handed to toLabelString and toValueString.
CoerceItemPool ==
  {Str("a"), Str(""), Num(3), Bool(TRUE), Null, Undefined,
   Arr(<<Str("a")>>), Arr(<<>>),
   Obj(<<Prop("value", Str("v")), Prop("label", Str("L"))>>),
   Obj(<<Prop("code", Str("c")), Prop("id", Num(3)), Prop("name", Null)>>),
   Obj(<<Prop("x", Num(5)), Prop("y", Num(6))>>),
   Obj(<<Prop("x", Obj(<<>>)), Prop("y", Num(6))>>),
   Obj(<<Prop("label", Str("L")), Prop("selected", Bool(TRUE)), Prop("current", Str("now"))>>),
   Obj(<<Prop("title", Str("T")), Prop("value", Obj(<<Prop("default", Str("deep"))>>))>>),
   Obj(<<Prop("name", Str("N")), Prop("initial", Arr(<<Str("a")>>))>>),
   Obj(<<Prop("label", Arr(<<>>)), Prop("default", Str(""))>>),
   Obj(<<>>),
   NullValueRecord}

\* The calls of toLabelString and toValueString: [fn, a: the item].
CoerceCalls ==
  {[fn |-> fn, a |-> item, b |-> Undefined] :
     fn \in {"toLabelString", "toValueString"}, item \in CoerceItemPool}

\* The URLs handed to loadExternalData.
UrlPool == {DemoUrl, "https://api.example.com/orders", "/api/colors", "constructor"}

\* The calls of loadExternalData: [fn, a: the URL, b: what the transport does
\* and whether the signal is aborted when a failure is caught].
LoadCalls ==
  {[fn |-> "loadExternalData", a |-> Str(url),
    b |-> [t |-> "transport", v |-> [outcome |-> outcome, body |-> body, aborted |-> aborted]]] :
     url \in UrlPool, outcome \in FetchOutcomes, body \in {Null, Arr(<<Str("a")>>)},
     aborted \in BOOLEAN}

\* The keys handed to sanitizeKey: spellings of three identifiers, and keys
\* without letters.
KeyPool ==
  {"Field Name", "field_name", "fieldName", "FIELD-NAME", " Field_Name ", "field - _name",
   "fieldname", "Qty", "QTY", "q_t-y", "target_field", "targetField", "Target Field", "", "-_ "}

\* The calls of sanitizeKey: [fn, a: the key].
SanitizeCalls == {[fn |-> "sanitizeKey", a |-> Str(key), b |-> Undefined] : key \in KeyPool}

\* The calls of createKeyVariants: [fn, a: the input].
VariantCalls ==
  {[fn |-> "createKeyVariants", a |-> Str(key), b |-> Undefined] :
     key \in KeyPool \cup {"a-", "  ", "first  name_2", "X"}}

\* {"qty":2,"QTY":1,"q_ty":3}
SpellingsRecord == Obj(<<Prop("qty", Num(2)), Prop("QTY", Num(1)), Prop("q_ty", Num(3))>>)

\* The records handed to getValueFromRecord.
LookupRecords ==
  {SpellingsRecord,
   Obj(<<Prop("Qty", Num(1)), Prop("Q-TY", Num(2)), Prop("name", Null)>>),
   Obj(<<Prop("options", Str("none")), Prop("Options", Arr(<<Str("a")>>)),
         Prop("op_tions", Arr(<<Str("b")>>)), Prop("Name", Str("n"))>>),
   Obj(<<Prop("Q_TY", Arr(<<>>)), Prop("OPTIONS", Num(0))>>),
   Obj(<<>>)}

LookupKeys == {"qty", "Qty", "q-ty", "options", "Op_Tions", "name"}

\* The candidate keys and the predicate as the argument of a call.
KeysArg(keys, predicate) == [t |-> "keys", v |-> [keys |-> keys, predicate |-> predicate]]

\* The calls of getValueFromRecord: [fn, a: the record, b: keys and predicate].
LookupCalls ==
  {[fn |-> "getValueFromRecord", a |-> record, b |-> KeysArg(keys, predicate)] :
     record \in LookupRecords,
     keys \in UNION {[1..n -> LookupKeys] : n \in 1..2},
     predicate \in {AnyValue, ArrayValue}}

\* A list of field descriptors as the argument of a call.
FieldsArg(fs) == [t |-> "fields", v |-> fs]

\* {"fieldId":"company","options":["Acme","Bolt"]}
CompanyChoicesRecord ==
  Obj(<<Prop("fieldId", Str("company")), Prop("options", Arr(<<Str("Acme"), Str("Bolt")>>))>>)

\* The calls of processExternalData: [fn, a: the payload, b: the fields].
ProcessCalls ==
  {[fn |-> "processExternalData", a |-> p, b |-> FieldsArg(fs)] :
     p \in Payloads \cup {Arr(<<CompanyChoicesRecord>>)}, fs \in FieldLists}

(***************************************************************************)
(* The run of processExternalData as a state machine                       *)
(***************************************************************************)
VARIABLES
  payload,             \* the decoded JSON document
  fields,              \* the field descriptors
  pc,                  \* where the run is: "path", "struct", "merge", "generic", "done"
  idx,                 \* the position of the loop the run is in
  selectOptions,       \* line 594
  initialValues,       \* line 595
  aggregated,          \* line 627
  matchedByStructure,  \* line 628
  threw,               \* an exception has left the function
  runs,                \* the number of the call the caller is in
  previous,            \* what the caller's previous call returned
  call,                \* a call of one of the helper functions
  ret,                 \* what the call returned
  nodes,               \* the runner's props: the steps
  edges,               \* the runner's props: the edges between the steps
  submissionUrl,       \* the runner's props: where an order is posted
  version,             \* the number of changes of the props
  trail,               \* line 576, as of the last commit
  formState,           \* line 577
  outcomeSelection,    \* line 578
  externalFieldStates, \* line 583
  queue,               \* the updates the next render applies
  effects,             \* the effects of the last commit that have not run
  phase,               \* "unmounted", "idle", "effects", "render"
  urgent,              \* an update of a user event is in the queue
  rendered,            \* the dependencies of the effects as of the last commit
  touched,             \* the render has given externalFieldStates a new object
  fetches,             \* the requests in flight, with their controllers
  applied,             \* the update the render has applied last
  waiting,             \* the tasks that have run since work was scheduled
  sent,                \* the orders posted
  events               \* the user events handled

engineVars == <<payload, fields, pc, idx, selectOptions, initialValues, aggregated,
                matchedByStructure, threw, runs, previous, call, ret>>

runnerVars == <<nodes, edges, submissionUrl, version, trail, formState, outcomeSelection,
                externalFieldStates, queue, effects, phase, urgent, rendered, touched,
                fetches, applied, waiting, sent, events>>

vars == <<engineVars, runnerVars>>

\* No runner is mounted.
Unmounted ==
  /\ nodes = <<>>
  /\ edges = <<>>
  /\ submissionUrl = ""
  /\ version = 0
  /\ trail = <<>>
  /\ formState = EmptyMap
  /\ outcomeSelection = EmptyMap
  /\ externalFieldStates = EmptyMap
  /\ queue = <<>>
  /\ effects = <<>>
  /\ phase = "unmounted"
  /\ urgent = FALSE
  /\ rendered = <<>>
  /\ touched = FALSE
  /\ fetches = <<>>
  /\ applied = <<>>
  /\ waiting = 0
  /\ sent = 0
  /\ events = 0

NoCall == [fn |-> "none", a |-> Undefined, b |-> Undefined]

\* ProcessedExternalData
Result(options, values) == [selectOptions |-> options, initialValues |-> values]

runState ==
  [payload |-> payload,
   selectOptions |-> selectOptions,
   initialValues |-> initialValues,
   aggregated |-> aggregated,
   matchedByStructure |-> matchedByStructure,
   threw |-> threw]

SetRun(st) ==
  /\ payload' = st.payload
  /\ selectOptions' = st.selectOptions
  /\ initialValues' = st.initialValues
  /\ aggregated' = st.aggregated
  /\ matchedByStructure' = st.matchedByStructure
  /\ threw' = st.threw

\* Where the run goes after the path pass (lines 625 and 774).
afterPathPass ==
  IF IsArray(payload) THEN (IF Len(payload.v) = 0 THEN "merge" ELSE "struct")
  ELSE IF entersGenericPass(payload) THEN "generic"
  ELSE "done"

Init ==
  /\ Unmounted
  /\ payload \in Payloads
  /\ fields \in FieldLists
  /\ pc = "path"
  /\ idx = 1
  /\ selectOptions = EmptyMap
  /\ initialValues = EmptyMap
  /\ aggregated = EmptyMap
  /\ matchedByStructure = FALSE
  /\ threw = FALSE
  /\ runs = 1
  /\ previous = Result(EmptyMap, EmptyMap)
  /\ call = NoCall
  /\ ret = Undefined

PathStep ==
  /\ pc = "path"
  /\ SetRun(pathStep(runState, fields[idx]))
  /\ IF idx < Len(fields)
     THEN pc' = "path" /\ idx' = idx + 1
     ELSE pc' = afterPathPass /\ idx' = 1
  /\ UNCHANGED <<fields, runs, previous, call, ret>>
  /\ UNCHANGED runnerVars

\* The run state after one entry of the structural pass, and where it goes.
AfterEntry(st) ==
  /\ SetRun(st)
  /\ IF st.threw THEN pc' = "done" /\ idx' = idx
     ELSE IF idx < Len(payload.v) THEN pc' = "struct" /\ idx' = idx + 1
     ELSE pc' = "merge" /\ idx' = 1

StructStep ==
  /\ pc = "struct"
  /\ AfterEntry(structuralStep(runState, fields, idx))
  /\ UNCHANGED <<fields, runs, previous, call, ret>>
  /\ UNCHANGED runnerVars

MergeStep ==
  /\ pc = "merge"
  /\ SetRun(mergeStep(runState, fields))
  /\ pc' = "done"
  /\ UNCHANGED <<fields, idx, runs, previous, call, ret>>
  /\ UNCHANGED runnerVars

\* The run state after one field of the generic pass, and where it goes.
AfterGenericField(st) ==
  /\ SetRun(st)
  /\ IF st.threw THEN pc' = "done" /\ idx' = idx
     ELSE IF idx < Len(fields) THEN pc' = "generic" /\ idx' = idx + 1
     ELSE pc' = "done" /\ idx' = 1

GenericStep ==
  /\ pc = "generic"
  /\ AfterGenericField(genericStep(runState, fields[idx]))
  /\ UNCHANGED <<fields, runs, previous, call, ret>>
  /\ UNCHANGED runnerVars

\* The caller calls again with the payload and the fields it holds; the call
\* starts from new maps (lines 594-595 and 627-628).
CallAgain ==
  /\ pc = "done"
  /\ ~threw
  /\ runs < MaxRuns
  /\ previous' = Result(selectOptions, initialValues)
  /\ SetRun(initialRun(payload))
  /\ pc' = "path"
  /\ idx' = 1
  /\ runs' = runs + 1
  /\ UNCHANGED <<fields, call, ret>>
  /\ UNCHANGED runnerVars

Next == PathStep \/ StructStep \/ MergeStep \/ GenericStep \/ CallAgain

Spec == Init /\ [][Next]_vars

(***************************************************************************)
(* Single calls of the helper functions                                    *)
(***************************************************************************)
CallInit ==
  /\ Unmounted
  /\ call \in ResolveCalls \cup NormalizeCalls \cup BuildCalls \cup ConvertCalls \cup ProcessCalls
               \cup SanitizeCalls \cup LookupCalls \cup ExplicitCalls \cup CoerceCalls
               \cup LoadCalls \cup VariantCalls
  /\ ret = Undefined
  /\ pc = "call"
  /\ payload = Null
  /\ fields = <<>>
  /\ idx = 1
  /\ selectOptions = EmptyMap
  /\ initialValues = EmptyMap
  /\ aggregated = EmptyMap
  /\ matchedByStructure = FALSE
  /\ threw = FALSE
  /\ runs = 1
  /\ previous = Result(EmptyMap, EmptyMap)

Return(value) ==
  /\ ret' = value
  /\ pc' = "returned"
  /\ UNCHANGED <<payload, fields, idx, selectOptions, initialValues, aggregated,
                 matchedByStructure, threw, runs, previous, call>>
  /\ UNCHANGED runnerVars

ResolvePathValue ==
  /\ pc = "call"
  /\ call.fn = "resolvePathValue"
  /\ Return(resolvePathValue(call.a, call.b.v))

NormalizeOptions ==
  /\ pc = "call"
  /\ call.fn = "normalizeOptions"
  /\ Return(Options(normalizeOptions(call.a)))

BuildSelectOptions ==
  /\ pc = "call"
  /\ call.fn = "buildSelectOptions"
  /\ Return(Options(buildSelectOptions(call.a, call.b)))

ConvertInitialValue ==
  /\ pc = "call"
  /\ call.fn = "convertInitialValue"
  /\ Return(convertInitialValue(Field("f", "F", call.b.v, Undefined, Undefined), call.a))

SanitizeKey ==
  /\ pc = "call"
  /\ call.fn = "sanitizeKey"
  /\ Return(Str(sanitizeKey(call.a.v)))

GetValueFromRecord ==
  /\ pc = "call"
  /\ call.fn = "getValueFromRecord"
  /\ Return(getValueFromRecord(call.a, buildLookup(call.a), call.b.v.keys, call.b.v.predicate))

CreateKeyVariants ==
  /\ pc = "call"
  /\ call.fn = "createKeyVariants"
  /\ Return([t |-> "variants", v |-> createKeyVariants(call.a.v)])

LoadExternalData ==
  /\ pc = "call"
  /\ call.fn = "loadExternalData"
  /\ Return(loadExternalData(call.a.v, call.b.v.outcome, call.b.v.body, call.b.v.aborted))

ToLabelString ==
  /\ pc = "call"
  /\ call.fn = "toLabelString"
  /\ Return(toLabelString(call.a))

ToValueString ==
  /\ pc = "call"
  /\ call.fn = "toValueString"
  /\ Return(toValueString(call.a))

ApplyExplicitFieldData ==
  /\ pc = "call"
  /\ call.fn = "applyExplicitFieldData"
  /\ Return([t |-> "fieldData",
             v |-> applyExplicitFieldData(Field("f", "F", call.b.v, Undefined, Undefined),
                                          call.a, Undefined)])

\* What a whole call returns: the two maps, or the exception it raised.
Returns(st) ==
  IF st.threw THEN [t |-> "exception", v |-> 0]
  ELSE [t |-> "result", v |-> Result(st.selectOptions, st.initialValues)]

ProcessExternalData ==
  /\ pc = "call"
  /\ call.fn = "processExternalData"
  /\ Return(Returns(processExternalData(call.a, call.b.v)))

CallNext ==
  \/ ResolvePathValue
  \/ NormalizeOptions
  \/ BuildSelectOptions
  \/ ConvertInitialValue
  \/ ProcessExternalData
  \/ SanitizeKey
  \/ GetValueFromRecord
  \/ ApplyExplicitFieldData
  \/ ToLabelString
  \/ ToValueString
  \/ LoadExternalData
  \/ CreateKeyVariants

CallSpec == CallInit /\ [][CallNext]_vars

(***************************************************************************)
(* The form runner as a state machine                                      *)
(***************************************************************************)
\* The dependencies of the effects as of a commit.
Dependencies(flowNodes, flowEdges, steps, propsVersion) ==
  [start |-> startNodeId(flowNodes, flowEdges),
   length |-> Len(flowNodes),
   node |-> IF activeNodeAt(flowNodes, steps) = 0 THEN <<0, NoNode>>
            ELSE <<propsVersion + 1, activeNodeId(steps)>>]

NothingApplied == [kind |-> "none", note |-> "none"]

AllEffects == <<"reset", "prune", "fetch", "reprocess", "apply", "selectReset">>

\* The effects whose dependencies differ between two commits, in the order
\* of their declaration.
effectsAfter(before, after, statesTouched) ==
  (IF before.start # after.start \/ before.length # after.length THEN <<"reset">> ELSE <<>>)
  \o (IF before.node # after.node THEN <<"prune", "fetch", "reprocess">> ELSE <<>>)
  \o (IF before.node # after.node \/ statesTouched THEN <<"apply", "selectReset">> ELSE <<>>)

RunnerInit ==
  /\ \E flow \in {TwoSteps(f) : f \in RunnerFieldPool} :
       /\ nodes = flow.nodes
       /\ edges = flow.edges
       /\ trail = (IF startNodeId(flow.nodes, flow.edges) # NoNode
                   THEN <<startNodeId(flow.nodes, flow.edges)>> ELSE <<>>)
       /\ rendered = Dependencies(flow.nodes, flow.edges,
                                  <<startNodeId(flow.nodes, flow.edges)>>, 0)
  /\ submissionUrl \in SubmissionUrls
  /\ version = 0
  /\ formState = EmptyMap
  /\ outcomeSelection = EmptyMap
  /\ externalFieldStates = EmptyMap
  /\ queue = <<>>
  /\ effects = AllEffects
  /\ phase = "idle"
  /\ urgent = FALSE
  /\ touched = FALSE
  /\ fetches = <<>>
  /\ applied = NothingApplied
  /\ waiting = 0
  /\ sent = 0
  /\ events = 0
  /\ call = NoCall
  /\ ret = Undefined
  /\ pc = "runner"
  /\ payload = Null
  /\ fields = <<>>
  /\ idx = 1
  /\ selectOptions = EmptyMap
  /\ initialValues = EmptyMap
  /\ aggregated = EmptyMap
  /\ matchedByStructure = FALSE
  /\ threw = FALSE
  /\ runs = 1
  /\ previous = Result(EmptyMap, EmptyMap)

\* An effect runs when it is the next of the commit's effects.
IsNextEffect(name) ==
  /\ phase \in {"idle", "effects"}
  /\ effects # <<>>
  /\ Head(effects) = name

\* The effect has run and has made the updates.
EffectDone(updates) ==
  /\ queue' = queue \o updates
  /\ effects' = Tail(effects)
  /\ phase' = IF Tail(effects) = <<>> THEN "idle" ELSE "effects"
  /\ UNCHANGED <<nodes, edges, submissionUrl, version, trail, formState, outcomeSelection,
                 externalFieldStates, rendered, urgent, touched, applied, waiting, sent,
                 events>>
  /\ UNCHANGED engineVars

\* Lines 586-597.
ResetEffect ==
  /\ IsNextEffect("reset")
  /\ EffectDone(resetUpdates(startNodeId(nodes, edges)))
  /\ UNCHANGED fetches

\* Lines 618-650.
PruneEffect ==
  /\ IsNextEffect("prune")
  /\ EffectDone(IF activeNodeAt(nodes, trail) = 0
                THEN <<Update("setExternalFieldStates", EmptyMap)>>
                ELSE <<Update("pruneStates",
                              {activeFields(nodes, trail)[i].id :
                                 i \in DOMAIN activeFields(nodes, trail)})>>)
  /\ UNCHANGED fetches

\* Lines 652-746: the cleanup of the effect's last run, then the run.
FetchEffect ==
  /\ IsNextEffect("fetch")
  /\ EffectDone(IF activeNodeAt(nodes, trail) = 0 THEN <<>>
                ELSE [i \in DOMAIN activeFields(nodes, trail) |->
                        fetchUpdate(activeFields(nodes, trail)[i],
                                    createAuthSignature(
                                      nodes[activeNodeAt(nodes, trail)].authentication))])
  /\ fetches' = abortAll(fetches)
                  \o (IF activeNodeAt(nodes, trail) = 0 THEN <<>>
                      ELSE startedRequests(activeFields(nodes, trail),
                                           nodes[activeNodeAt(nodes, trail)].authentication))

\* Lines 748-776.
ReprocessEffect ==
  /\ IsNextEffect("reprocess")
  /\ EffectDone(IF activeNodeAt(nodes, trail) = 0 THEN <<>>
                ELSE <<Update("reprocessStates", activeFields(nodes, trail))>>)
  /\ UNCHANGED fetches

\* The updates of the apply effect when the updater of setFormState has run
\* inside the call (React computes the state eagerly) and has filled
\* fieldsToMark before line 806 tests it.
eagerUpdates(nodeFields, current, states) ==
  (IF applyInitialValues(current, nodeFields, states) # current
   THEN <<Update("applyInitialValues", [fields |-> nodeFields, states |-> states])>>
   ELSE <<>>)
  \o (IF fieldsToMark(nodeFields, states) # {}
      THEN <<Update("markApplied", fieldsToMark(nodeFields, states))>>
      ELSE <<>>)

\* The updates of the apply effect when the updater is queued and runs in
\* the next render: line 806 finds fieldsToMark empty.
deferredUpdates(nodeFields, states) ==
  <<Update("applyInitialValues", [fields |-> nodeFields, states |-> states])>>

\* Lines 778-821.  React runs the updater inside the call of setFormState
\* only when the component has no update pending, and does not promise to.
ApplyEffect ==
  /\ IsNextEffect("apply")
  /\ \E eager \in BOOLEAN :
       /\ eager => \A k \in DOMAIN queue : ~isStateUpdate(queue[k])
       /\ EffectDone(IF activeNodeAt(nodes, trail) = 0 THEN <<>>
                     ELSE IF eager
                     THEN eagerUpdates(activeFields(nodes, trail), formState, externalFieldStates)
                     ELSE deferredUpdates(activeFields(nodes, trail), externalFieldStates))
  /\ UNCHANGED fetches

\* Lines 823-848.
SelectResetEffect ==
  /\ IsNextEffect("selectReset")
  /\ EffectDone(IF activeNodeAt(nodes, trail) = 0 THEN <<>>
                ELSE <<Update("resetSelectValues",
                              [fields |-> activeFields(nodes, trail),
                               states |-> externalFieldStates])>>)
  /\ UNCHANGED fetches

\* A task can run: React is not at work, and has no render to make first.
CanRun ==
  /\ phase = "idle"
  /\ ~urgent
  /\ (queue = <<>> /\ effects = <<>>) \/ waiting < MaxWaiting

\* The task has run.
HasRun == waiting' = IF queue = <<>> /\ effects = <<>> THEN 0 ELSE waiting + 1

\* The browser dispatches an event of the user between two tasks.
CanHandle ==
  /\ CanRun
  /\ events < MaxEvents

\* The handler has made the updates; React renders them before the next task.
Handled(updates) ==
  /\ queue' = queue \o updates
  /\ urgent' = (urgent \/ updates # <<>>)
  /\ events' = events + 1
  /\ HasRun
  /\ UNCHANGED <<nodes, edges, submissionUrl, version, trail, formState, outcomeSelection,
                 externalFieldStates, effects, phase, rendered, touched, fetches, applied>>
  /\ UNCHANGED engineVars

\* Lines 850-852, from the controls of lines 1031 and 1054.
UpdateFieldValue ==
  /\ CanHandle
  /\ \E i \in DOMAIN activeFields(nodes, trail) :
       \E value \in EnteredValues(activeFields(nodes, trail)[i], externalFieldStates) :
         Handled(<<Update("updateFieldValue",
                          [fieldId |-> activeFields(nodes, trail)[i].id, value |-> value])>>)
  /\ UNCHANGED sent

\* Lines 1066-1080: the outcome select, shown for more than one outcome.
SelectOutcome ==
  /\ CanHandle
  /\ activeNodeAt(nodes, trail) # 0
  /\ Len(nodes[activeNodeAt(nodes, trail)].outcomes) > 1
  /\ \E k \in DOMAIN nodes[activeNodeAt(nodes, trail)].outcomes :
       Handled(<<Update("selectOutcome",
                        [nodeId |-> activeNodeId(trail),
                         outcome |-> nodes[activeNodeAt(nodes, trail)].outcomes[k]])>>)
  /\ UNCHANGED sent

\* Lines 854-858, from the button of line 1086 (disabled for a trail of one).
GoBack ==
  /\ CanHandle
  /\ activeNodeAt(nodes, trail) # 0
  /\ Len(trail) > 1
  /\ Handled(<<Update("goBack", Undefined)>>)
  /\ UNCHANGED sent

\* Lines 860-921.
HandleSubmit ==
  /\ CanHandle
  /\ activeNodeAt(nodes, trail) # 0
  /\ IF missingFieldAt(activeFields(nodes, trail), formState) # 0
     THEN Handled(<<>>) /\ UNCHANGED sent
     ELSE IF nextEdgeAt(edges, activeNodeId(trail),
                        selectedOutcome(nodes[activeNodeAt(nodes, trail)], outcomeSelection)) # 0
     THEN /\ Handled(<<Update("advance",
                              edges[nextEdgeAt(edges, activeNodeId(trail),
                                      selectedOutcome(nodes[activeNodeAt(nodes, trail)],
                                                      outcomeSelection))].target)>>)
          /\ UNCHANGED sent
     ELSE IF submissionUrl = "" THEN Handled(<<>>) /\ UNCHANGED sent
     ELSE Handled(<<>>) /\ sent' = sent + 1

\* The parent renders the runner with other nodes and edges (App.tsx, lines
\* 446-484: an import that ends after the runner tab has been opened).
Import ==
  /\ CanRun
  /\ HasRun
  /\ version + Cardinality({k \in DOMAIN queue : queue[k].kind = "props"}) < MaxImports
  /\ \E flow \in Flows(fieldOf(nodes)) :
       /\ flow # Flow(nodes, edges)
       /\ queue' = Append(queue, Update("props", flow))
  /\ UNCHANGED <<nodes, edges, submissionUrl, version, trail, formState, outcomeSelection,
                 externalFieldStates, effects, phase, rendered, urgent, touched, fetches,
                 applied, sent, events>>
  /\ UNCHANGED engineVars

\* Lines 696-739: the promise of loadExternalData is settled and the
\* continuation of the request runs.  fetch is the host's: the model lets it
\* answer a request after the abort of its controller too, which is the case
\* lines 701-706 provide for.
FetchSettles ==
  /\ CanRun
  /\ HasRun
  /\ \E i \in DOMAIN fetches :
       \E outcome \in {"ok", "network"} :
         \E body \in Bodies :
           /\ outcome = "network" => body = HelioBody
           /\ queue' = queue \o settledUpdates(fetches[i],
                                  loadExternalData(fetches[i].url, outcome, body,
                                                   fetches[i].aborted))
           /\ fetches' = removeAt(fetches, i)
  /\ UNCHANGED <<nodes, edges, submissionUrl, version, trail, formState, outcomeSelection,
                 externalFieldStates, effects, phase, rendered, urgent, touched, applied,
                 sent, events>>
  /\ UNCHANGED engineVars

\* What the render notes of the update it has applied.
noteOf(update, current, states) ==
  CASE update.kind = "applyInitialValues" ->
         IF \E i \in DOMAIN update.arg.fields :
              /\ writesInitialValueAlways(update.arg.fields[i], current, update.arg.states)
              /\ hasFilledValue(update.arg.fields[i],
                                storedValue(current, update.arg.fields[i].id))
              /\ update.arg.states[update.arg.fields[i].id].initialValue
                   # storedValue(current, update.arg.fields[i].id)
         THEN "kept"
         ELSE IF applyInitialValues(current, update.arg.fields, update.arg.states) # current
         THEN "written"
         ELSE "none"
    [] update.kind = "successState" ->
         IF isStale(states, update.arg.fieldId, update.arg.url, update.arg.authSignature)
         THEN "stale" ELSE "stored"
    [] update.kind = "resetSelectValues" ->
         IF resetSelectValues(current, update.arg.fields, update.arg.states) # current
         THEN "reset" ELSE "none"
    [] update.kind = "markApplied" ->
         IF markApplied(states, update.arg) # states THEN "marked" ELSE "none"
    [] OTHER -> "none"

\* The render applies the next update of the queue (React has run the
\* pending effects before it renders).
ApplyUpdate ==
  /\ phase \in {"idle", "render"}
  /\ effects = <<>>
  /\ queue # <<>>
  /\ phase' = "render"
  /\ queue' = Tail(queue)
  /\ IF Head(queue).kind = "props"
     THEN /\ nodes' = Head(queue).arg.nodes
          /\ edges' = Head(queue).arg.edges
          /\ version' = version + 1
          /\ UNCHANGED <<trail, formState, outcomeSelection, externalFieldStates, touched,
                         applied>>
     ELSE /\ trail' = trailAfter(trail, Head(queue))
          /\ formState' = formStateAfter(formState, Head(queue))
          /\ outcomeSelection' = outcomeSelectionAfter(outcomeSelection, Head(queue))
          /\ externalFieldStates' = statesAfter(externalFieldStates, Head(queue))
          /\ touched' = (touched \/ isNewStates(externalFieldStates, Head(queue),
                                                statesAfter(externalFieldStates, Head(queue))))
          /\ applied' = [kind |-> Head(queue).kind,
                         note |-> noteOf(Head(queue), formState, externalFieldStates)]
          /\ UNCHANGED <<nodes, edges, version>>
  /\ UNCHANGED <<submissionUrl, effects, rendered, urgent, fetches, waiting, sent, events>>
  /\ UNCHANGED engineVars

\* The render is committed: the effects whose dependencies have changed are
\* scheduled.
Commit ==
  /\ phase = "render"
  /\ queue = <<>>
  /\ phase' = "idle"
  /\ urgent' = FALSE
  /\ touched' = FALSE
  /\ applied' = NothingApplied
  /\ waiting' = 0
  /\ rendered' = Dependencies(nodes, edges, trail, version)
  /\ effects' = effectsAfter(rendered, Dependencies(nodes, edges, trail, version), touched)
  /\ UNCHANGED <<nodes, edges, submissionUrl, version, trail, formState, outcomeSelection,
                 externalFieldStates, queue, fetches, sent, events>>
  /\ UNCHANGED engineVars

RunnerNext ==
  \/ ResetEffect
  \/ PruneEffect
  \/ FetchEffect
  \/ ReprocessEffect
  \/ ApplyEffect
  \/ SelectResetEffect
  \/ UpdateFieldValue
  \/ SelectOutcome
  \/ GoBack
  \/ HandleSubmit
  \/ Import
  \/ FetchSettles
  \/ ApplyUpdate
  \/ Commit

RunnerSpec == RunnerInit /\ [][RunnerNext]_vars

\* The state the runner is in when nothing is left to run.
Settled == phase = "idle" /\ queue = <<>> /\ effects = <<>>

(***************************************************************************)
(* Properties                                                              *)
(***************************************************************************)
Returned(fn) == pc = "returned" /\ call.fn = fn

FieldIds == {fields[i].id : i \in DOMAIN fields}

\* The maps hold the same for the id: both nothing, or both the same entry.
SameEntry(map, other, id) ==
  /\ id \in DOMAIN map <=> id \in DOMAIN other
  /\ id \in DOMAIN map => map[id] = other[id]

\* Every entry of the map is an entry of map' too.
Kept(map, mapNext) == \A id \in DOMAIN map : id \in DOMAIN mapNext /\ mapNext[id] = map[id]

\* C1: resolving the path "data.items[].value" against the payload
\* {"data":{"items":[{"value":1},{"value":2},{"x":3}]}} returns the array [1,2].
C1_FlattenResolves ==
  (Returned("resolvePathValue") /\ call.a = NestedPayload /\ call.b = Str("data.items[].value"))
    => ret = Arr(<<Num(1), Num(2)>>)

\* The rounds the loop a call is in can make at most, plus one.
LoopBound == Len(fields) + (IF IsArray(payload) THEN Len(payload.v) ELSE 0) + 1

\* The passes a call has before it, the merge counted as a pass.
PassesLeft ==
  CASE pc = "path" -> 3
    [] pc \in {"struct", "generic"} -> 2
    [] pc = "merge" -> 1
    [] OTHER -> 0

\* A measure of what the caller's calls have before them.
StepsLeft == ((MaxRuns - runs) * 4 + PassesLeft) * (LoopBound + 1) + (LoopBound - idx)

\* The call is at its end or at a step it can take: a round of a loop over
\* the fields or over the entries of the payload, or the merge.
AtStep ==
  CASE pc \in {"path", "generic"} -> idx \in 1..Len(fields)
    [] pc = "struct" -> IsArray(payload) /\ idx \in 1..Len(payload.v)
    [] OTHER -> pc \in {"merge", "done"}

\* C2: processExternalData never raises: for every payload and every list of
\* fields the call raises no exception, its two maps hold entries for ids of
\* the fields only, and it comes to its end: before the end it is at a step it
\* can take, and every step brings it nearer to the end.
C2_NeverRaises ==
  /\ [](/\ ~threw
        /\ DOMAIN selectOptions \subseteq FieldIds
        /\ DOMAIN initialValues \subseteq FieldIds
        /\ StepsLeft >= 0
        /\ AtStep)
  /\ [][StepsLeft' < StepsLeft]_vars

\* A call on an array payload with entries that are no records has ended.
C2_Witness ==
  /\ pc = "done"
  /\ IsArray(payload)
  /\ \E e \in 1..Len(payload.v) : ~IsObjectLike(payload.v[e])
  /\ \E e \in 1..Len(payload.v) : payload.v[e] = Null

\* C3: at every point of a call, every key of initialValues maps to a value
\* that is not undefined and every key of selectOptions maps to a non-empty
\* option list.
C3_NoPlaceholders ==
  /\ \A id \in DOMAIN initialValues : initialValues[id] # Undefined
  /\ \A id \in DOMAIN selectOptions : Len(selectOptions[id]) > 0

\* A call has ended with a select field that got options and no initial value.
C3_Witness ==
  /\ pc = "done"
  /\ \E i \in DOMAIN fields :
       /\ fields[i].type = "select"
       /\ fields[i].id \in DOMAIN selectOptions
       /\ fields[i].id \notin DOMAIN initialValues

\* The payload is an array in which field f matches no record while another
\* field of the list does, so that the call hands out no shared option pool,
\* and the call for f alone hands f the pool.
PoolWithheld(f) ==
  /\ IsArray(payload)
  /\ matchedByStructure
  /\ f.id \notin DOMAIN aggregated
  /\ f.id \notin DOMAIN selectOptions
  /\ f.type = "select"

\* What the call for f alone returns, compared with this call's maps.
AloneAgrees(f, alone) ==
  /\ SameEntry(initialValues, alone.initialValues, f.id)
  /\ \/ SameEntry(selectOptions, alone.selectOptions, f.id)
     \/ /\ PoolWithheld(f)
        /\ f.id \in DOMAIN alone.selectOptions
        /\ alone.selectOptions[f.id] = normalizeOptions(payload)

AloneEqual(f, alone) ==
  /\ SameEntry(initialValues, alone.initialValues, f.id)
  /\ SameEntry(selectOptions, alone.selectOptions, f.id)

C5_PathPriority ==
  [][(pc \in {"struct", "merge", "generic"}) =>
       (Kept(initialValues, initialValues') /\ Kept(selectOptions, selectOptions'))]_vars

\* A call has ended in which the path pass wrote a field's initial value and
\* the structural pass found another value for the same field.
C5_Witness ==
  /\ pc = "done"
  /\ \E id \in DOMAIN aggregated \cap DOMAIN initialValues :
       /\ aggregated[id].initialValue # Undefined
       /\ aggregated[id].initialValue # initialValues[id]

\* The leaves of a nested array, depth first and from left to right.
RECURSIVE DepthFirstLeaves(_)
DepthFirstLeaves(item) ==
  IF IsArray(item)
  THEN LET walk[i \in 0..Len(item.v)] ==
             IF i = 0 THEN <<>> ELSE walk[i - 1] \o DepthFirstLeaves(item.v[i])
       IN walk[Len(item.v)]
  ELSE <<item>>

\* The option value of a leaf: Str(_), or Null when it has none.
LeafValue(leaf) == Coalesce(toValueString(leaf), toLabelString(leaf))

\* The position of the first leaf with the value.
FirstSeen(leaves, value) ==
  CHOOSE i \in 1..Len(leaves) :
    /\ LeafValue(leaves[i]) = Str(value)
    /\ \A j \in 1..(i - 1) : LeafValue(leaves[j]) # Str(value)

\* The options are those of the leaves: distinct non-empty values, one for every
\* leaf value, in the order of first occurrence, labelled by the first leaf.
FirstSeenOptions(options, leaves) ==
  /\ \A k \in 1..Len(options) :
       /\ options[k].value # ""
       /\ \E i \in 1..Len(leaves) : LeafValue(leaves[i]) = Str(options[k].value)
       /\ options[k].label =
            Coalesce(toLabelString(leaves[FirstSeen(leaves, options[k].value)]),
                     Str(options[k].value)).v
  /\ \A k, l \in 1..Len(options) :
       k < l => /\ options[k].value # options[l].value
                /\ FirstSeen(leaves, options[k].value) < FirstSeen(leaves, options[l].value)
  /\ \A i \in 1..Len(leaves) :
       IsTruthyString(LeafValue(leaves[i]))
         => \E k \in 1..Len(options) : Str(options[k].value) = LeafValue(leaves[i])

\* C6: the options normalizeOptions returns have pairwise distinct, non-empty
\* values, in the order in which the values are first seen in a depth-first
\* left-to-right walk of the input; a later item with a seen value is dropped
\* and leaves the label of the kept option as it is.
C6_FirstSeenOrder ==
  Returned("normalizeOptions") => FirstSeenOptions(ret.v, DepthFirstLeaves(call.a))

\* normalizeOptions has returned from a nested input in which the value "a"
\* comes twice, with two labels.
C6_Witness ==
  /\ Returned("normalizeOptions")
  /\ call.a = Arr(<<Obj(<<Prop("value", Str("a")), Prop("label", Str("Alpha"))>>),
                    Arr(<<Str("b"),
                          Obj(<<Prop("value", Str("a")), Prop("label", Str("Second"))>>)>>)>>)
  /\ ret = Options(<<Option("a", "Alpha"), Option("b", "b")>>)

\* Position i of the list, the last element past its end.
ClampedAt(list, i) == IF i <= Len(list) THEN list[i] ELSE list[Len(list)]

\* The options of the position-wise pairing: position i of the labels with
\* position i of the values, the last element of a list past its end, the other
\* list's element where a list is empty.
RECURSIVE PairedByPosition(_, _, _)
PairedByPosition(labels, values, count) ==
  IF count = 0 THEN NoOptions
  ELSE pairCandidates(PairedByPosition(labels, values, count - 1),
                      IF labels # <<>> THEN ClampedAt(labels, count) ELSE ClampedAt(values, count),
                      IF values # <<>> THEN ClampedAt(values, count) ELSE ClampedAt(labels, count))

\* C7: buildSelectOptions flattens both inputs and returns the options of the
\* position-wise pairing, never more than the longer input has elements;
\* (["A","B","C"], "X") gives [{value:"X", label:"A"}].
C7_PairsByPosition ==
  Returned("buildSelectOptions") =>
    /\ ret.v = PairedByPosition(flattenToArray(call.a), flattenToArray(call.b),
                                Max(Len(flattenToArray(call.a)), Len(flattenToArray(call.b)))).options
    /\ Len(ret.v) <= Max(Len(flattenToArray(call.a)), Len(flattenToArray(call.b)))
    /\ (call.a = Arr(<<Str("A"), Str("B"), Str("C")>>) /\ call.b = Str("X"))
         => ret.v = <<Option("X", "A")>>

\* C8: for the payload [{"fieldId":"qty","value":5},{"fieldId":"company",
\* "value":"Acme"}] and the fields qty (number) and company (text), neither with
\* a path, processExternalData returns initialValues = {qty: 5, company: "Acme"}.
C8_StructuralBinding ==
  (/\ pc = "done"
   /\ payload = Arr(<<QtyRecord, CompanyRecord>>)
   /\ fields \in {<<QtyField, CompanyField>>, <<CompanyField, QtyField>>})
    => initialValues = ("qty" :> Num(5)) @@ ("company" :> Str("Acme"))

\* The call on that payload and those fields has ended, each record having
\* bound the field its identifier names.
C8_Witness ==
  /\ pc = "done"
  /\ payload = Arr(<<QtyRecord, CompanyRecord>>)
  /\ fields = <<QtyField, CompanyField>>
  /\ DOMAIN aggregated = {"qty", "company"}

\* C9: a second call on the same payload and fields returns the maps the first
\* call returned.
C9_Deterministic ==
  (pc = "done" /\ runs > 1) => Result(selectOptions, initialValues) = previous

\* A second call has ended and returned options and initial values.
C9_Witness ==
  /\ pc = "done"
  /\ runs > 1
  /\ selectOptions # EmptyMap
  /\ initialValues # EmptyMap

\* C10: no step of processExternalData changes the payload or the field
\* descriptors.
C10_InputsUnchanged == [][payload' = payload /\ fields' = fields]_vars

\* A call has ended in which arrays of two payload records were accumulated as
\* one field's option source.
C10_Witness ==
  /\ pc = "done"
  /\ \E id \in DOMAIN aggregated :
       /\ aggregated[id].options # Undefined
       /\ \E e \in 1..Len(payload.v) : \E p \in 1..Len(ownProps(payload.v[e])) :
            /\ IsArray(ownProps(payload.v[e])[p].v)
            /\ Len(aggregated[id].options.v) > Len(ownProps(payload.v[e])[p].v.v)

\* The value the first k segments resolve to, for segments without a flatten
\* segment among the first k.
PrefixValue(segments, root, k) ==
  IF k = 0 THEN root ELSE traverse(SubSeq(segments, 1, k), root, 0)

NoFlattenBefore(segments, k) == \A i \in 1..k : segments[i] # "[]"

\* The segment is a negative integer.
IsNegativeSegment(segment) ==
  /\ startsWith(segment, "-")
  /\ AllDigits(SubSeq(segment, 2, Len(segment)))
  /\ digitsToNat(SubSeq(segment, 2, Len(segment))) > 0

\* The segment holds a character that no integer is written with.
IsNonIntegerSegment(segment) ==
  \E i \in 1..Len(segment) : CharAt(segment, i) \notin DigitSet \cup {"-", "+"}

\* The rules for one segment applied to the value current, giving next.
IndexAndShapeRule(current, segment, next) ==
  /\ (IsArray(current) /\ AllDigits(segment)) =>
       next = (IF digitsToNat(segment) < Len(current.v)
               THEN current.v[digitsToNat(segment) + 1] ELSE Undefined)
  /\ (IsArray(current) /\ (IsNegativeSegment(segment) \/ IsNonIntegerSegment(segment))) =>
       next = Undefined
  /\ current.t \in {"string", "number", "boolean", "null"} => next = Undefined

\* The rules hold at every segment, and the call returns the last value.
IndexAndShape(segments, root, result) ==
  /\ \A k \in 1..Len(segments) :
       NoFlattenBefore(segments, k) =>
         IndexAndShapeRule(PrefixValue(segments, root, k - 1), segments[k],
                           PrefixValue(segments, root, k))
  /\ (segments # <<>> /\ NoFlattenBefore(segments, Len(segments))) =>
       result = PrefixValue(segments, root, Len(segments))

\* C11: in resolvePathValue an integer segment applied to an array gives the
\* element at that index, undefined when the index is out of bounds; a negative
\* or non-integer segment applied to an array gives undefined; any segment
\* applied to a scalar or to null gives undefined; "a.b[0]" on
\* {"a":{"b":["x","y"]}} is "x" and "a.b[5]" is undefined.
C11_IndexAndShape ==
  Returned("resolvePathValue") =>
    /\ IndexAndShape(parsePathSegments(call.b.v), call.a, ret)
    /\ (call.a = IndexPayload /\ call.b = Str("a.b[0]")) => ret = Str("x")
    /\ (call.a = IndexPayload /\ call.b = Str("a.b[5]")) => ret = Undefined

\* resolvePathValue has returned undefined for a negative index into an array
\* that has elements.
C11_Witness ==
  /\ Returned("resolvePathValue")
  /\ call.a = IndexPayload
  /\ call.b = Str("a.b[-1]")
  /\ ret = Undefined

\* Nothing is left of the expression without its blanks and leading "$".
IsEmptyExpression(path) == stripLeadingDollars(trim(path)) = ""

PositionsOf(path, c) == {i \in 1..Len(path) : CharAt(path, i) = c}

\* The brackets of the expression do not pair up.
HasUnbalancedBrackets(path) ==
  \/ Cardinality(PositionsOf(path, "[")) # Cardinality(PositionsOf(path, "]"))
  \/ \E j \in PositionsOf(path, "]") :
       Cardinality({i \in PositionsOf(path, "[") : i < j})
         < Cardinality({i \in PositionsOf(path, "]") : i <= j})

\* What a bracket segment may hold: nothing, an integer or a quoted key.
IsBracketContent(inner) ==
  \/ inner = ""
  \/ AllDigits(inner)
  \/ (startsWith(inner, "-") /\ AllDigits(SubSeq(inner, 2, Len(inner))))
  \/ (Len(inner) >= 2 /\ CharAt(inner, 1) \in {"\"", "'"} /\ endsWith(inner, CharAt(inner, 1)))

\* A bracket pair of the expression holds something else.
HasUnsupportedBracket(path) ==
  \E i \in PositionsOf(path, "[") : \E j \in PositionsOf(path, "]") :
    /\ i < j
    /\ \A m \in (i + 1)..(j - 1) : CharAt(path, m) # "]"
    /\ ~IsBracketContent(SubSeq(path, i + 1, j - 1))

IsMalformedOrEmpty(path) ==
  IsEmptyExpression(path) \/ HasUnbalancedBrackets(path) \/ HasUnsupportedBracket(path)

\* C12: a path expression that is empty (nothing, blanks, only "$") or malformed
\* (unbalanced or unsupported brackets) parses to no segments, and
\* resolvePathValue returns undefined for it.
C12_MalformedYieldsNothing ==
  (Returned("resolvePathValue") /\ IsMalformedOrEmpty(call.b.v)) =>
    (parsePathSegments(call.b.v) = <<>> /\ ret = Undefined)

\* The string is an integer in decimal digits with blanks around it.
IsNumericString(value) ==
  /\ IsString(value)
  /\ \/ AllDigits(trim(value.v))
     \/ /\ (startsWith(trim(value.v), "-") \/ startsWith(trim(value.v), "+"))
        /\ AllDigits(SubSeq(trim(value.v), 2, Len(trim(value.v))))

\* The number a numeric string is the parse of.
ParsedNumber(digits) ==
  IF startsWith(digits, "-") THEN 0 - digitsToNat(SubSeq(digits, 2, Len(digits)))
  ELSE IF startsWith(digits, "+") THEN digitsToNat(SubSeq(digits, 2, Len(digits)))
  ELSE digitsToNat(digits)

\* What convertInitialValue is to return for a field of the type.
TypeDirected(type, value, result) ==
  IF type = "number"
  THEN IF value.t = "number" THEN result = value
       ELSE IF IsNumericString(value) THEN result = Num(ParsedNumber(trim(value.v)))
       ELSE result = Undefined
  ELSE IF value.t = "string" THEN result = value
  ELSE IF value.t \in {"number", "boolean"} THEN result.t = "string"
  ELSE result = Undefined

\* Every initial value of the result has the type of its field.
TypedInitialValues(fs, values) ==
  \A i \in DOMAIN fs :
    fs[i].id \in DOMAIN values =>
      values[fs[i].id].t = (IF fs[i].type = "number" THEN "number" ELSE "string")

\* C13: convertInitialValue returns, for a number field, a number input as it is
\* or the parse of a non-blank numeric string ("42" gives 42) and undefined for
\* everything else ("abc", blank strings, booleans, objects, arrays, null); for
\* a select or text field a string for string, number and boolean inputs and
\* undefined for everything else.  So every value of initialValues is a number
\* for a number field and a string for a text or select field.
C13_TypeDirected ==
  /\ Returned("convertInitialValue") =>
       /\ TypeDirected(call.b.v, call.a, ret)
       /\ (call.b.v = "number" /\ call.a = Str("42")) => ret = Num(42)
       /\ (call.b.v = "number" /\ call.a = Str("abc")) => ret = Undefined
  /\ Returned("processExternalData") =>
       /\ ret.t = "result"
       /\ TypedInitialValues(call.b.v, ret.v.initialValues)

\* processExternalData has returned a number field's initial value that was
\* parsed from a string of the payload.
C13_Witness ==
  /\ Returned("processExternalData")
  /\ \E i \in DOMAIN call.b.v :
       /\ call.b.v[i].type = "number"
       /\ call.b.v[i].externalDataPath = Str(" $.data.qty ")
       /\ resolvePathValue(call.a, " $.data.qty ") = Str("42")
       /\ call.b.v[i].id \in DOMAIN ret.v.initialValues
       /\ ret.v.initialValues[call.b.v[i].id] = Num(42)

\* The two keys differ in letter case and in separators only.
RECURSIVE SameSpelling(_, _)
SameSpelling(a, b) ==
  IF a # "" /\ IsSeparator(CharAt(a, 1)) THEN SameSpelling(SubSeq(a, 2, Len(a)), b)
  ELSE IF b # "" /\ IsSeparator(CharAt(b, 1)) THEN SameSpelling(a, SubSeq(b, 2, Len(b)))
  ELSE IF a = "" \/ b = "" THEN a = b
  ELSE /\ LowerChar(CharAt(a, 1)) = LowerChar(CharAt(b, 1))
       /\ SameSpelling(SubSeq(a, 2, Len(a)), SubSeq(b, 2, Len(b)))

\* C14: sanitizeKey maps keys that differ only in letter case and in blank,
\* hyphen or underscore separators to the same string; "Field Name",
\* "field_name" and "fieldName" all give "fieldname"; and sanitizeKey applied to
\* its own result gives that result.
C14_SanitizeIdentifies ==
  Returned("sanitizeKey") =>
    /\ \A other \in KeyPool : SameSpelling(call.a.v, other) => sanitizeKey(other) = ret.v
    /\ call.a.v \in {"Field Name", "field_name", "fieldName"} => ret = Str("fieldname")
    /\ sanitizeKey(ret.v) = ret.v

\* sanitizeKey has returned for a key with an upper-case letter and a separator.
C14_Witness ==
  /\ Returned("sanitizeKey")
  /\ call.a = Str("Field Name")
  /\ ret = Str("fieldname")

\* The field has a path, and the path resolves on the payload.
PathResolved(f) ==
  /\ f.externalDataPath # Undefined
  /\ trim(f.externalDataPath.v) # ""
  /\ resolvePathValue(payload, trim(f.externalDataPath.v)) # Undefined

\* C15: on a plain-object payload the generic object pass gives neither an
\* initial value nor options to a field whose externalDataPath resolved.
C15_GenericOnlyUnresolved ==
  [][(pc = "generic" /\ PathResolved(fields[idx])) =>
       (SameEntry(initialValues, initialValues', fields[idx].id)
          /\ SameEntry(selectOptions, selectOptions', fields[idx].id))]_vars

\* The property names a candidate key stands for at a tier: the name itself,
\* the names that are the key in lower case, the names the key sanitizes to.
NamedAt(tier, name, key) ==
  CASE tier = 1 -> name = key
    [] tier = 2 -> toLowerCase(name) = toLowerCase(key)
    [] tier = 3 -> sanitizeKey(name) = sanitizeKey(key)

\* What a candidate key gives at a tier: the value of the last property it
\* stands for there, when that value satisfies the predicate; else undefined.
TierValue(props, tier, key, predicate) ==
  LET named == {i \in 1..Len(props) : NamedAt(tier, props[i].k, key)}
      last == CHOOSE i \in named : \A j \in named : j <= i
  IN IF named # {} /\ (predicate = AnyValue \/ IsArray(props[last].v))
     THEN props[last].v ELSE Undefined

\* The values of all candidates: tier by tier, and in caller order in a tier.
TierValues(props, keys, predicate) ==
  [n \in 1..(3 * Len(keys)) |->
     TierValue(props, ((n - 1) \div Len(keys)) + 1, keys[((n - 1) % Len(keys)) + 1], predicate)]

\* The first of the values that is not undefined.
FirstDefined(values) ==
  IF \A n \in DOMAIN values : values[n] = Undefined THEN Undefined
  ELSE values[CHOOSE n \in DOMAIN values :
                /\ values[n] # Undefined
                /\ \A m \in 1..(n - 1) : values[m] = Undefined]

\* C16: getValueFromRecord tries the exact property names for every candidate
\* in caller order, then the lower-case index for every candidate, then the
\* sanitized index for every candidate, and returns the first value that
\* satisfies the predicate; so the exact match of a later candidate wins over
\* the case-insensitive match of an earlier one.
C16_TiersInOrder ==
  Returned("getValueFromRecord") =>
    /\ ret = FirstDefined(TierValues(call.a.v, call.b.v.keys, call.b.v.predicate))
    /\ (call.a = SpellingsRecord /\ call.b = KeysArg(<<"Qty", "qty">>, AnyValue)) => ret = Num(2)

\* getValueFromRecord has returned the exact match of the second candidate,
\* where the first candidate has a case-insensitive match with another value.
C16_Witness ==
  /\ Returned("getValueFromRecord")
  /\ call.a = SpellingsRecord
  /\ call.b = KeysArg(<<"Qty", "qty">>, AnyValue)
  /\ TierValue(call.a.v, 2, "Qty", AnyValue) = Num(1)
  /\ ret = Num(2)

\* The names of the identifier list, sanitized.
IdentifierNames == {sanitizeKey(identifierKeys[n]) : n \in 1..Len(identifierKeys)}

\* Some property name of the record sanitize-matches the field's variant set.
NamesField(props, f) ==
  \E p \in 1..Len(props) : sanitizeKey(props[p].k) \in fieldNormalizedKeys(f)

\* Some identifier-style property of the record holds a string that
\* sanitize-matches the field's id or label.
IdentifiesField(props, f) ==
  \E p \in 1..Len(props) :
    /\ sanitizeKey(props[p].k) \in IdentifierNames
    /\ IsString(props[p].v)
    /\ sanitizeKey(props[p].v.v) \in {sanitizeKey(f.id), sanitizeKey(f.label)}

\* C17: in the structural pass a record matches a field when some property
\* name of the record sanitize-matches the field's id/label variants, or when
\* any one identifier-style property of the record holds a string that
\* sanitize-matches the field's id or label, whatever other identifier-style
\* properties the record carries; a matched field has an aggregate.
C17_AnyIdentifierMatches ==
  [][(pc = "struct" /\ IsObjectLike(payload.v[idx])) =>
       \A i \in DOMAIN fields :
         (NamesField(ownProps(payload.v[idx]), fields[i])
            \/ IdentifiesField(ownProps(payload.v[idx]), fields[i]))
           <=> (fields[i].id \in DOMAIN aggregated' \ DOMAIN aggregated
                  \/ (fields[i].id \in DOMAIN aggregated
                        /\ matchesField(payload.v[idx], buildLookup(payload.v[idx]),
                                        fieldNormalizedKeys(fields[i]))))]_vars

\* The position of the first flatten segment (0 when there is none).
FirstFlatten(segments) ==
  IF \E k \in 1..Len(segments) : segments[k] = "[]"
  THEN CHOOSE k \in 1..Len(segments) : segments[k] = "[]" /\ NoFlattenBefore(segments, k - 1)
  ELSE 0

\* The concatenation of the results: an undefined one gives nothing, an array
\* gives its elements, anything else gives itself.
RECURSIVE Spliced(_)
Spliced(results) ==
  IF results = <<>> THEN <<>>
  ELSE (IF Head(results) = Undefined THEN <<>>
        ELSE IF IsArray(Head(results)) THEN Head(results).v
        ELSE <<Head(results)>>) \o Spliced(Tail(results))

\* The outcome of the flatten segment on the value current, with the segments
\* that remain after it.
Flattened(current, remaining) ==
  IF ~IsArray(current) THEN Undefined
  ELSE IF Spliced([i \in 1..Len(current.v) |-> traverse(remaining, current.v[i], 0)]) = <<>>
       THEN Undefined
  ELSE Arr(Spliced([i \in 1..Len(current.v) |-> traverse(remaining, current.v[i], 0)]))

\* C18: at a flatten segment on an array the result is the concatenation, in
\* element order, of what the remaining segments resolve to on every element,
\* without the undefined results and with an array result spliced in one
\* level; it is undefined, never an empty array, when no element gives a
\* result, and undefined when the value at the segment is no array.
C18_FlattenConcatenates ==
  (Returned("resolvePathValue") /\ FirstFlatten(parsePathSegments(call.b.v)) # 0) =>
    /\ ret = Flattened(PrefixValue(parsePathSegments(call.b.v), call.a,
                                   FirstFlatten(parsePathSegments(call.b.v)) - 1),
                       SubSeq(parsePathSegments(call.b.v),
                              FirstFlatten(parsePathSegments(call.b.v)) + 1,
                              Len(parsePathSegments(call.b.v))))
    /\ ret # Arr(<<>>)

\* resolvePathValue has returned from a flatten segment over elements of which
\* one gives two values, one an empty array, one a single value and one nothing.
C18_Witness ==
  /\ Returned("resolvePathValue")
  /\ call.a = GroupsPayload
  /\ call.b = Str("groups['[]'].tags")
  /\ parsePathSegments(call.b.v) = <<"groups", "[]", "tags">>
  /\ ret = Arr(<<Str("a"), Str("b"), Str("c")>>)

\* Entry e of the payload array is a record that matches the field.
MatchesEntry(e, f) ==
  /\ IsObjectLike(payload.v[e])
  /\ matchesField(payload.v[e], buildLookup(payload.v[e]), fieldNormalizedKeys(f))

\* The value entry e yields for the field, converted.
YieldedValue(e, f) ==
  convertInitialValue(f,
    getValueFromRecord(payload.v[e], buildLookup(payload.v[e]),
                       structuralValueKeys(fieldKeyVariants(f)), AnyValue))

\* The option array of entry e for the field: the keyed one, else an array value.
YieldedOptions(e, f) ==
  Coalesce(getArrayValue(payload.v[e], buildLookup(payload.v[e]),
                         structuralOptionKeys(fieldKeyVariants(f))),
           arrayOrUndefined(getValueFromRecord(payload.v[e], buildLookup(payload.v[e]),
                                               structuralValueKeys(fieldKeyVariants(f)),
                                               AnyValue)))

\* The first of the entries 1..n that matches the field and yields a value.
FirstYielded(f, n) ==
  LET yielding == {e \in 1..n : MatchesEntry(e, f) /\ YieldedValue(e, f) # Undefined}
  IN IF yielding = {} THEN Undefined
     ELSE YieldedValue(CHOOSE e \in yielding : \A o \in yielding : e <= o, f)

\* The option arrays of the matching entries among 1..n, concatenated.
RECURSIVE ConcatenatedOptions(_, _)
ConcatenatedOptions(f, n) ==
  IF n = 0 THEN <<>>
  ELSE ConcatenatedOptions(f, n - 1)
         \o (IF MatchesEntry(n, f) /\ YieldedOptions(n, f) # Undefined
             THEN YieldedOptions(n, f).v ELSE <<>>)

\* The entries of the payload array the structural pass has been through.
EntriesDone == IF pc = "struct" THEN idx - 1 ELSE Len(payload.v)

\* The options the map holds for the id: none is the empty list.
OptionsFor(id) == IF id \in DOMAIN selectOptions THEN selectOptions[id] ELSE <<>>

\* The field's aggregate over the entries 1..n, and what the output holds for
\* a field that has no path when the call has ended.
AggregatedInOrder(f, n) ==
  /\ f.id \in DOMAIN aggregated <=> \E e \in 1..n : MatchesEntry(e, f)
  /\ f.id \in DOMAIN aggregated =>
       /\ aggregated[f.id].initialValue = FirstYielded(f, n)
       /\ (IF aggregated[f.id].options = Undefined THEN <<>> ELSE aggregated[f.id].options.v)
            = ConcatenatedOptions(f, n)
  /\ (pc = "done" /\ f.externalDataPath = Undefined /\ f.id \in DOMAIN aggregated) =>
       /\ SameEntry(initialValues,
                    IF FirstYielded(f, n) = Undefined THEN EmptyMap
                    ELSE f.id :> FirstYielded(f, n),
                    f.id)
       /\ FirstSeenOptions(OptionsFor(f.id), DepthFirstLeaves(Arr(ConcatenatedOptions(f, n))))

\* C19: over a payload array a field's initial value is the converted value of
\* the first record, in payload order, that matches the field and yields a
\* coercible value, and no later record replaces it; the option arrays of all
\* matching records are concatenated in payload order and deduplicated by value
\* once at the end, so that the options keep the order of first occurrence
\* across the records.
C19_FirstValueAllOptions ==
  (IsArray(payload) /\ pc \in {"struct", "merge", "done"}) =>
    \A i \in DOMAIN fields : AggregatedInOrder(fields[i], EntriesDone)

\* A call has ended on two records that match the select field, each with a
\* value and with option arrays that share a value.
C19_Witness ==
  /\ pc = "done"
  /\ payload = Arr(<<ColorRecord, NamedColorRecord>>)
  /\ \E i \in DOMAIN fields :
       /\ fields[i] = ColorField
       /\ YieldedValue(1, fields[i]) = Str("red")
       /\ YieldedValue(2, fields[i]) = Str("green")
       /\ initialValues["color"] = Str("red")
       /\ selectOptions["color"]
            = <<Option("red", "red"), Option("blue", "blue"), Option("green", "green")>>

\* The options a map of option lists holds for the id: none is the empty list.
OptionsIn(map, id) == IF id \in DOMAIN map THEN map[id] ELSE <<>>

\* What the merge does for the field, given the map before and the map after.
SharedPoolRule(f, before, after) ==
  /\ (~matchedByStructure /\ f.type = "select" /\ f.id \notin DOMAIN before) =>
       OptionsIn(after, f.id) = normalizeOptions(payload)
  /\ (~matchedByStructure /\ f.type # "select") => SameEntry(before, after, f.id)
  /\ (matchedByStructure /\ f.id \notin DOMAIN aggregated) => SameEntry(before, after, f.id)
  /\ (matchedByStructure /\ f.id \in DOMAIN aggregated /\ ~SameEntry(before, after, f.id)) =>
       /\ f.id \notin DOMAIN before
       /\ aggregated[f.id].options # Undefined
       /\ OptionsIn(after, f.id) = normalizeOptions(aggregated[f.id].options)

\* C20: on an array payload, when no field matched a record structurally every
\* select field without options from the path pass receives the options
\* normalised from the whole payload array and no other field receives them;
\* when a field matched a record, no field receives the shared pool: a field's
\* options then come from its own aggregate only.
C20_SharedPool ==
  [][(pc = "merge") =>
       \A i \in DOMAIN fields : SharedPoolRule(fields[i], selectOptions, selectOptions')]_vars

\* A call has ended in which no field matched a record and a select field of a
\* list with another field received the shared pool.
C20_Witness ==
  /\ pc = "done"
  /\ IsArray(payload)
  /\ ~matchedByStructure
  /\ \E i, j \in DOMAIN fields :
       /\ fields[i].type = "select"
       /\ fields[i].externalDataPath = Undefined
       /\ fields[i].id \in DOMAIN selectOptions
       /\ selectOptions[fields[i].id] = normalizeOptions(payload)
       /\ fields[j].type # "select"
       /\ fields[j].id \notin DOMAIN selectOptions

\* C21: selectOptions holds entries for select fields only: no text or number
\* field's id is a key of the selectOptions processExternalData returns.
C21_OptionsForSelectOnly ==
  Returned("processExternalData") =>
    \A i \in DOMAIN call.b.v :
      call.b.v[i].type # "select" => call.b.v[i].id \notin DOMAIN ret.v.selectOptions

\* Neither an array nor an object.
IsScalar(value) == value.t \notin {"array", "object"}

\* The positions that bound the parts of s: before the first character, after
\* the last, and every ";" and ",".
Cuts(s) == {0, Len(s) + 1} \cup {i \in 1..Len(s) : CharAt(s, i) \in {";", ","}}

\* The trimmed part of s that starts after the cut.
PartAfter(s, cut) ==
  LET next == CHOOSE c \in Cuts(s) : c > cut /\ \A d \in Cuts(s) : d > cut => c <= d
  IN trim(SubSeq(s, cut + 1, next - 1))

\* The cuts of s after which a part starts that is not blank.
PartStarts(s) == {c \in Cuts(s) : c <= Len(s) /\ PartAfter(s, c) # ""}

\* The cut after which the part is first met.
FirstPart(s, part) ==
  CHOOSE c \in PartStarts(s) :
    PartAfter(s, c) = part /\ \A d \in PartStarts(s) : PartAfter(s, d) = part => c <= d

\* The options are the non-blank trimmed parts of s, each once, in the order
\* in which they are first met, labelled by themselves.
PartOptions(options, s) ==
  /\ \A k \in 1..Len(options) :
       /\ options[k].label = options[k].value
       /\ \E c \in PartStarts(s) : PartAfter(s, c) = options[k].value
  /\ \A k, l \in 1..Len(options) :
       k < l => /\ options[k].value # options[l].value
                /\ FirstPart(s, options[k].value) < FirstPart(s, options[l].value)
  /\ \A c \in PartStarts(s) : \E k \in 1..Len(options) : options[k].value = PartAfter(s, c)

\* C22: for a scalar value (no value override) applyExplicitFieldData returns
\* the type-coerced scalar as the initial value; for a select field and a
\* string it also returns the options made of the trimmed non-blank parts of
\* the string split at ";" and ",", each once, while the initial value is the
\* whole string; in every other scalar case it returns no options.
C22_ScalarBranch ==
  (Returned("applyExplicitFieldData") /\ IsScalar(call.a)) =>
    /\ TypeDirected(call.b.v, call.a, ret.v.initialValue)
    /\ IF call.b.v = "select" /\ IsString(call.a)
       THEN /\ ret.v.initialValue = call.a
            /\ IF PartStarts(call.a.v) = {} THEN ret.v.options = Undefined
               ELSE /\ ret.v.options # Undefined
                    /\ PartOptions(ret.v.options.v, call.a.v)
       ELSE ret.v.options = Undefined

\* A select field's string "red, green;red" has given the whole string as the
\* initial value and the two options red and green.
C22_Witness ==
  /\ Returned("applyExplicitFieldData")
  /\ call.b.v = "select"
  /\ call.a = Str("red, green;red")
  /\ ret.v = FieldData(Str("red, green;red"),
                       Options(<<Option("red", "red"), Option("green", "green")>>))

\* The string of a primitive (Null for everything else).
PrimitiveOf(item) ==
  CASE item.t = "string" -> item
    [] item.t = "number" -> Str(numberToString(item.v))
    [] item.t = "boolean" -> Str(IF item.v THEN "true" ELSE "false")
    [] OTHER -> Null

\* The value of the item's own property of the name (Undefined without one).
Under(item, name) ==
  IF \E i \in DOMAIN item.v : item.v[i].k = name
  THEN item.v[CHOOSE i \in DOMAIN item.v : item.v[i].k = name].v
  ELSE Undefined

\* The first of the values that is not Null (Null when there is none).
FirstNotNull(values) ==
  IF \E n \in DOMAIN values : values[n] # Null
  THEN values[CHOOSE n \in DOMAIN values :
                values[n] # Null /\ \A m \in 1..(n - 1) : values[m] = Null]
  ELSE Null

\* The label by the priorities: the item's own primitive, else for an object
\* the first primitive under label, name, title, value, id, code, else the
\* primitive of the first declared property, else none; none for an array.
PriorityLabel(item) ==
  IF PrimitiveOf(item) # Null THEN PrimitiveOf(item)
  ELSE IF item.t # "object" THEN Null
  ELSE FirstNotNull([n \in 1..(Len(labelKeys) + 1) |->
         IF n <= Len(labelKeys) THEN PrimitiveOf(Under(item, labelKeys[n]))
         ELSE IF item.v # <<>> THEN PrimitiveOf(item.v[1].v)
         ELSE Null])

\* A string that is not empty, or Null.
Usable(result) == IF result.t = "string" /\ result.v # "" THEN result ELSE Null

\* The value by the priorities: the item's own primitive, else for an object
\* the first usable value under value, default, defaultValue, initial,
\* initialValue, current, selected, else the object's label; none for an array.
RECURSIVE PriorityValue(_)
PriorityValue(item) ==
  IF PrimitiveOf(item) # Null THEN PrimitiveOf(item)
  ELSE IF item.t # "object" THEN Null
  ELSE Coalesce(FirstNotNull([n \in 1..Len(explicitValueKeys) |->
                  Usable(PriorityValue(Under(item, explicitValueKeys[n])))]),
                PriorityLabel(item))

\* C23: toLabelString returns the label by the priorities label, name, title,
\* value, id, code, then the first declared property; toValueString returns
\* the first usable value under value, default, defaultValue, initial,
\* initialValue, current, selected (coerced recursively), and the object's
\* label only when none of them gives one; arrays give neither.
C23_CoercionPriorities ==
  /\ Returned("toLabelString") => ret = PriorityLabel(call.a)
  /\ Returned("toValueString") => ret = PriorityValue(call.a)

\* The keys of the demo datasets.
DemoKeys == {demoDatasets.v[i].k : i \in DOMAIN demoDatasets.v}

\* The demo dataset of a key.
DemoDataset(url) == demoDatasets.v[CHOOSE i \in DOMAIN demoDatasets.v : demoDatasets.v[i].k = url].v

\* C24: loadExternalData rethrows the error when the request fails and the
\* signal is aborted; when it fails without abort it returns the demo dataset
\* with isFallback = true for a URL that is a key of the demo datasets and
\* rethrows for every other URL; a successful response gives its payload with
\* isFallback = false.
C24_FallbackRules ==
  Returned("loadExternalData") =>
    IF call.b.v.outcome = "ok" THEN ret = Fetched(call.b.v.body, FALSE)
    ELSE IF call.b.v.aborted THEN ret = Rejected(call.b.v.outcome)
    ELSE IF call.a.v \in DemoKeys THEN ret = Fetched(DemoDataset(call.a.v), TRUE)
    ELSE ret = Rejected(call.b.v.outcome)

\* C30: for an input that is not blank createKeyVariants returns at most 7
\* strings, none empty and no two equal, the trimmed input among them, and
\* every one of them sanitizes to what the input sanitizes to; for an empty
\* or whitespace-only input it returns the empty list.
C30_OneIdentifierClass ==
  Returned("createKeyVariants") =>
    IF trim(call.a.v) = "" THEN ret.v = <<>>
    ELSE /\ Len(ret.v) \in 1..7
         /\ \A i \in DOMAIN ret.v : ret.v[i] # ""
         /\ \A i, j \in DOMAIN ret.v : i # j => ret.v[i] # ret.v[j]
         /\ \E i \in DOMAIN ret.v : ret.v[i] = trim(call.a.v)
         /\ \A i \in DOMAIN ret.v : sanitizeKey(ret.v[i]) = sanitizeKey(call.a.v)

\* createKeyVariants has returned the five spellings of " Field_Name ".
C30_Witness ==
  /\ Returned("createKeyVariants")
  /\ call.a = Str(" Field_Name ")
  /\ ret.v = <<"Field_Name", "field_name", "FieldName", "fieldName", "fieldname">>

\* C25: in the form runner, the update of the apply effect writes an external
\* initial value only into a field whose current value is unfilled: whatever
\* user edits, answers and re-processing have come before, a field that holds
\* a filled value holds the same value after the update.
C25_FilledValueKept ==
  [][(queue # <<>> /\ Head(queue).kind = "applyInitialValues")
       => \A i \in DOMAIN Head(queue).arg.fields :
            hasFilledValue(Head(queue).arg.fields[i],
                           storedValue(formState, Head(queue).arg.fields[i].id))
              => storedValue(formState', Head(queue).arg.fields[i].id)
                   = storedValue(formState, Head(queue).arg.fields[i].id)]_vars

\* The render has applied the update of the apply effect to a field that
\* held a filled value other than the external initial value on offer.
C25_Witness ==
  /\ phase = "render"
  /\ applied = [kind |-> "applyInitialValues", note |-> "kept"]

\* C26: in the form runner, the updater of a completed fetch leaves the
\* external states as they are when the field's latest state has another url
\* or authentication signature than the fetch was started with, and the
\* failure of a fetch whose controller has been aborted queues no error state.
C26_StaleAnswerIgnored ==
  [][/\ (queue # <<>> /\ Head(queue).kind = "successState"
          /\ isStale(externalFieldStates, Head(queue).arg.fieldId, Head(queue).arg.url,
                     Head(queue).arg.authSignature))
         => externalFieldStates' = externalFieldStates
     /\ Len(fetches') < Len(fetches)
         => \A k \in DOMAIN queue' :
              (k > Len(queue) /\ queue'[k].kind = "errorState")
                => \E i \in DOMAIN fetches :
                     /\ ~fetches[i].aborted
                     /\ fetches[i].field.id = queue'[k].arg.fieldId
                     /\ fetches' = removeAt(fetches, i)]_vars

\* The render has applied the updater of a fetch whose field has by then a
\* state of another url or signature.
C26_Witness ==
  /\ phase = "render"
  /\ applied = [kind |-> "successState", note |-> "stale"]

\* C27: in the form runner, after a field's external load has succeeded the
\* effects reach a fixed point in which the field's success state is marked
\* appliedInitialValue: when nothing is left to run, every field of the active
\* step with a success state has the mark.
C27_MarkedWhenSettled ==
  Settled =>
    \A i \in DOMAIN activeFields(nodes, trail) :
      isSuccessState(externalFieldStates, activeFields(nodes, trail)[i].id)
        => externalFieldStates[activeFields(nodes, trail)[i].id].appliedInitialValue

\* C28: in the form runner, when nothing is left to run, every select field
\* of the active step whose external state is a success with options holds
\* no value, the empty string, or the value of one of these options.
C28_SelectValueAmongOptions ==
  Settled =>
    \A i \in DOMAIN activeFields(nodes, trail) :
      (/\ activeFields(nodes, trail)[i].type = "select"
       /\ isSuccessState(externalFieldStates, activeFields(nodes, trail)[i].id)
       /\ Len(externalFieldStates[activeFields(nodes, trail)[i].id].selectOptions) > 0)
      => \/ storedValue(formState, activeFields(nodes, trail)[i].id)
              \in {Undefined, Null, Str("")}
         \/ stringOf(storedValue(formState, activeFields(nodes, trail)[i].id))
              \in offeredValues(activeFields(nodes, trail)[i], externalFieldStates)

\* Without any user event, the select of the active step holds the empty
\* string where the response's initial value is not among its options.
C28_Witness ==
  /\ Settled
  /\ events = 0
  /\ activeNodeId(trail) = "step-1"
  /\ isSuccessState(externalFieldStates, "field-company")
  /\ externalFieldStates["field-company"].initialValue = Str("Zeta")
  /\ Len(externalFieldStates["field-company"].selectOptions) > 0
  /\ storedValue(formState, "field-company") = Str("")

\* C29: step trail of the form runner: whenever a start node exists, the
\* trail is not empty and its first element is the start node (stated for
\* the states in which nothing is left to run).
C29_TrailStartsAtStart ==
  (Settled /\ startNodeId(nodes, edges) # NoNode)
    => (trail # <<>> /\ trail[1] = startNodeId(nodes, edges))

====
